---- MODULE Spec2Model ----
(***************************************************************************)
(* Live cloning bot (src/bot_source/live-cloning/live_cloner.py).          *)
(*                                                                         *)
(* Every update is dispatched in its own task.  A task runs the handlers   *)
(* in the order in which register_event_handlers registers them:           *)
(*   check_status, forwarder, forbid_non_sudo_commands, the commands.      *)
(* A handler that returns hands the update to the next handler, one that   *)
(* raises StopPropagation ends the dispatch, one that raises anything else *)
(* is logged by the client library and the dispatch goes on.  Tasks        *)
(* interleave only where a handler awaits; the code between two awaits is  *)
(* one step of the model.  Consecutive awaits between which the handler    *)
(* reads no shared state are one suspension.                               *)
(***************************************************************************)
EXTENDS Integers, Sequences, FiniteSets, TLC

VARIABLES config,              \* self.config, the in-memory configuration
          file,                \* the configuration file as last written
          tasks,               \* one dispatch task per update
          mappings,            \* message_mappings.json
          processed_messages,  \* self.processed_messages
          boot,                \* main(): startup, run loop, exit
          copier,              \* forward_job() of the copier
          web,                 \* the WebIntegratedBot object
          validator            \* auto_start_validator, the AutoStartValidator

vars == <<config, file, tasks, mappings, processed_messages, boot, copier, web, validator>>

\* all but the copier
vars_bot == <<config, file, tasks, mappings, processed_messages, boot, web, validator>>

\* all but the web object
vars_cloner == <<config, file, tasks, mappings, processed_messages, boot, copier,
                 validator>>

(***************************************************************************)
(* Bounds of the model.                                                    *)
(***************************************************************************)
MaxMsgs == 2        \* updates dispatched in one behaviour
MaxRuns == 2        \* runs of the copier in one behaviour
MaxCalls == 4       \* calls of methods of WebIntegratedBot in one behaviour

Tasks == 1..MaxMsgs

Ids == {1, 2, 3}            \* entity ids that names resolve to
Chats == Ids \cup {9, 100, 200}   \* chats no name resolves to

Names == {"1", "2", "3", "-3"}
Resolve == ("1" :> 1) @@ ("2" :> 2) @@ ("3" :> 3) @@ ("-3" :> 3)
Negative == {"-3"}          \* names written with a leading minus sign

Me == "me"
SudoUser == "sudo_user"
Stranger == "stranger"
Sudo == {SudoUser}          \* config["sudo"]; no command changes it

\* Text is a sequence of characters, each a string; "emdash" stands for
\* U+2014, "<BEL>" for U+0007 and "<BS>" for U+0008.
Upper == ("A" :> "a") @@ ("B" :> "b") @@ ("H" :> "h")
Lower(c) == IF c \in DOMAIN Upper THEN Upper[c] ELSE c
Words == {<<"a">>, <<"b">>, <<"a", "b">>}
Signatures == {<<"b">>}
CmdText == <<"$">>          \* the raw text of a command message

Range(f) == {f[i] : i \in DOMAIN f}

(***************************************************************************)
(* State as one record, so that a handler is a function from the state     *)
(* before to the state after.                                              *)
(***************************************************************************)
Cur == [config |-> config, file |-> file, tasks |-> tasks,
        mappings |-> mappings, processed_messages |-> processed_messages,
        boot |-> boot, copier |-> copier, web |-> web,
        validator |-> validator]

Install(s) ==
    /\ config' = s.config
    /\ file' = s.file
    /\ tasks' = s.tasks
    /\ mappings' = s.mappings
    /\ processed_messages' = s.processed_messages
    /\ boot' = s.boot
    /\ copier' = s.copier
    /\ web' = s.web
    /\ validator' = s.validator

NoCmd == [op |-> "none", a |-> "", b |-> ""]

IdleTask == [pc |-> "idle", msg |-> [sender |-> Me, out |-> TRUE, chat |-> 9,
                                     kind |-> "text", text |-> <<>>, cmd |-> NoCmd],
             en |-> TRUE, targets |-> <<>>, idx |-> 0, message_text |-> <<>>,
             attempts |-> <<>>, logged |-> 0, reply |-> "", res |-> <<>>,
             count |-> 0]

\* status_data of the calls of update_status
Starting == [error |-> FALSE, message |-> "Starting live cloning bot..."]
Running == [error |-> FALSE, message |-> "Live cloning bot is running"]
Stopped == [error |-> FALSE, message |-> "Bot stopped"]
Error == [error |-> TRUE, message |-> ""]
Periodic == [error |-> FALSE, message |-> ""]

\* update_status: status = {"running": self.is_running, ..., **status_data},
\* written over the status file
update_status(b, status_data) ==
    [b EXCEPT !.status = Append(@, [running |-> b.is_running,
                                    error |-> status_data.error,
                                    message |-> status_data.message])]

\* get_default_config, with a sudo user
DefaultConfig == [bot_enabled |-> TRUE, filter_words |-> TRUE, add_signature |-> FALSE,
                  signature |-> <<>>, entities |-> <<>>, filters |-> <<>>]

Reply(s, t, text) == [s EXCEPT !.tasks[t].reply = text, !.tasks[t].pc = "done"]

\* update_config: self.config is already changed in place; rewrite the file.
\* ok = FALSE: opening the file raises and the file stays as it was.
update_config(s, ok) == IF ok THEN [s EXCEPT !.file = s.config] ELSE s

(***************************************************************************)
(* Command handlers.  io is what the outside world answers in this step:   *)
(* io.found, whether get_entity resolves the names; io.wr, whether the     *)
(* config file can be written; io.ok, whether a send succeeds.             *)
(***************************************************************************)

\* change_bot_status, change_filters_status, change_signature_status,
\* change_signature_text: set the field, rewrite the file, reply.  No
\* try/except: when the write raises, the handler ends without a reply.
Toggle(s, t, io, field, value, text) ==
    LET s1 == [s EXCEPT !.config[field] = value]
    IN  IF io.wr THEN Reply(update_config(s1, TRUE), t, text)
        ELSE [s1 EXCEPT !.tasks[t].pc = "done"]

change_bot_status(s, t, io) ==
    IF s.tasks[t].msg.cmd.op = "on"
    THEN Toggle(s, t, io, "bot_enabled", TRUE, "bot_on")
    ELSE Toggle(s, t, io, "bot_enabled", FALSE, "bot_off")

change_filters_status(s, t, io) ==
    IF s.tasks[t].msg.cmd.op = "filters_on"
    THEN Toggle(s, t, io, "filter_words", TRUE, "filters_enabled")
    ELSE Toggle(s, t, io, "filter_words", FALSE, "filters_disabled")

change_signature_status(s, t, io) ==
    IF s.tasks[t].msg.cmd.op = "sign_on"
    THEN Toggle(s, t, io, "add_signature", TRUE, "sign_enabled")
    ELSE Toggle(s, t, io, "add_signature", FALSE, "sign_disabled")

change_signature_text(s, t, io) ==
    Toggle(s, t, io, "signature", s.tasks[t].msg.cmd.a, "sign_updated")

\* the loop without the test for the reverse filter
RECURSIVE FilterCheckNoCycle(_, _, _, _)
FilterCheckNoCycle(filters, i, from_word, to_word) ==
    IF i > Len(filters) THEN "none"
    ELSE IF filters[i][1] = from_word THEN "already_filtered"
    ELSE FilterCheckNoCycle(filters, i + 1, from_word, to_word)

\* the loop without the test for a filter of the same 'from' word
RECURSIVE FilterCheckNoFrom(_, _, _, _)
FilterCheckNoFrom(filters, i, from_word, to_word) ==
    IF i > Len(filters) THEN "none"
    ELSE IF filters[i][1] = to_word /\ filters[i][2] = from_word THEN "cycle"
    ELSE FilterCheckNoFrom(filters, i + 1, from_word, to_word)

\* The loop of add_filter over the filters, in list order: the first filter
\* that is the reverse of the new one or has its 'from' word decides.
RECURSIVE FilterCheck(_, _, _, _)
FilterCheck(filters, i, from_word, to_word) ==
    IF i > Len(filters) THEN "none"
    ELSE IF filters[i][1] = to_word /\ filters[i][2] = from_word THEN "cycle"
    ELSE IF filters[i][1] = from_word THEN "already_filtered"
    ELSE FilterCheck(filters, i + 1, from_word, to_word)

add_filter(s, t, io) ==
    LET from_word == s.tasks[t].msg.cmd.a
        to_word == s.tasks[t].msg.cmd.b
        filters == s.config.filters
        found == FilterCheck(filters, 1, from_word, to_word)
        new_filter == <<from_word, to_word>>
    IN  IF found # "none" THEN Reply(s, t, found)
        ELSE IF new_filter \notin Range(filters)
        THEN LET s1 == [s EXCEPT !.config.filters = Append(filters, new_filter)]
             IN  IF io.wr THEN Reply(update_config(s1, TRUE), t, "filter_added")
                 ELSE [s1 EXCEPT !.tasks[t].pc = "done"]
        ELSE Reply(s, t, "filter_exists")

\* list.remove(x): drop the first element equal to x
RemoveFirst(list, x) ==
    LET i == CHOOSE j \in DOMAIN list :
                 list[j] = x /\ \A k \in 1..(j - 1) : list[k] # x
    IN  SubSeq(list, 1, i - 1) \o SubSeq(list, i + 1, Len(list))

\* the loop walking the list it changes instead of a copy: after a removal
\* the next element is skipped
RECURSIVE RemoveLoopNoCopy(_, _, _, _, _)
RemoveLoopNoCopy(copy, i, list, key, count) ==
    IF i > Len(list) THEN [list |-> list, count |-> count]
    ELSE IF list[i][1] = key
         THEN RemoveLoopNoCopy(copy, i + 1, RemoveFirst(list, list[i]), key, count + 1)
         ELSE RemoveLoopNoCopy(copy, i + 1, list, key, count)

\* for x in list[:]: if x[0] == key: list.remove(x); count += 1
\* copy is the snapshot the loop walks, list the list it changes.
RECURSIVE RemoveLoop(_, _, _, _, _)
RemoveLoop(copy, i, list, key, count) ==
    IF i > Len(copy) THEN [list |-> list, count |-> count]
    ELSE IF copy[i][1] = key
         THEN RemoveLoop(copy, i + 1, RemoveFirst(list, copy[i]), key, count + 1)
         ELSE RemoveLoop(copy, i + 1, list, key, count)

remove_filter(s, t, io) ==
    LET from_word == s.tasks[t].msg.cmd.a
        filters == s.config.filters
        r == RemoveLoop(filters, 1, filters, from_word, 0)
        s1 == [s EXCEPT !.config.filters = r.list, !.tasks[t].count = r.count]
    IN  IF r.count > 0
        THEN IF io.wr THEN Reply(update_config(s1, TRUE), t, "filter_erased")
             ELSE [s1 EXCEPT !.tasks[t].pc = "done"]
        ELSE Reply(s1, t, "filter_missing")

\* the cycle check looking for the pair itself, not its reverse
CycleCheckUnreversed(entities, base, target) ==
    \E i \in DOMAIN entities : entities[i][1] = base /\ entities[i][2] = target

\* the cycle check that finds nothing
CycleCheckNever(entities, base, target) == FALSE

\* for config in entities: if config[0] == target.id and config[1] == base.id
CycleCheck(entities, base, target) ==
    \E i \in DOMAIN entities : entities[i][1] = target /\ entities[i][2] = base

\* link_entities that appends without looking for the pair in the list
link_entities_no_membership(s, t, io) ==
    LET cmd == s.tasks[t].msg.cmd
        base == Resolve[cmd.a]
        target == Resolve[cmd.b]
        entities == s.config.entities
        new_config == <<base, target>>
        s0 == [s EXCEPT !.tasks[t].res = new_config]
    IN  IF ~io.found THEN Reply(s, t, "error")
        ELSE IF CycleCheck(entities, base, target)
        THEN Reply(s0, t, "cycle")
        ELSE LET s1 == [s0 EXCEPT !.config.entities = Append(entities, new_config)]
             IN  IF io.wr THEN Reply(update_config(s1, TRUE), t, "linked")
                 ELSE Reply(s1, t, "error")

\* link_entities appending to the rule list of the default configuration,
\* the list as it was before any command, instead of the list in memory
link_entities_stale(s, t, io) ==
    LET cmd == s.tasks[t].msg.cmd
        new_config == <<Resolve[cmd.a], Resolve[cmd.b]>>
        s1 == [s EXCEPT !.tasks[t].res = new_config,
                        !.config.entities =
                            Append(DefaultConfig.entities, new_config)]
    IN  IF ~io.found THEN Reply(s, t, "error")
        ELSE IF io.wr THEN Reply(update_config(s1, TRUE), t, "linked")
        ELSE Reply(s1, t, "error")

\* link_entities after 'Processing...' and the two get_entity calls.  The
\* body is inside try/except Exception: a name that does not resolve and a
\* write that raises both end in the 'Error' edit.
link_entities(s, t, io) ==
    LET cmd == s.tasks[t].msg.cmd
        base == Resolve[cmd.a]
        target == Resolve[cmd.b]
        entities == s.config.entities
        new_config == <<base, target>>
        s0 == [s EXCEPT !.tasks[t].res = new_config]
    IN  IF ~io.found THEN Reply(s, t, "error")
        ELSE IF CycleCheck(entities, base, target)
        THEN Reply(s0, t, "cycle")
        ELSE IF new_config \notin Range(entities)
        THEN LET s1 == [s0 EXCEPT !.config.entities = Append(entities, new_config)]
             IN  IF io.wr THEN Reply(update_config(s1, TRUE), t, "linked")
                 ELSE Reply(s1, t, "error")
        ELSE Reply(s0, t, "exists")

\* unlink_entities that reports and persists whatever the count
unlink_entities_any_count(s, t, io) ==
    LET base == Resolve[s.tasks[t].msg.cmd.a]
        entities == s.config.entities
        r == RemoveLoop(entities, 1, entities, base, 0)
        s1 == [s EXCEPT !.config.entities = r.list, !.tasks[t].count = r.count,
                        !.tasks[t].res = <<base>>]
    IN  IF ~io.found THEN Reply(s, t, "error")
        ELSE IF io.wr THEN Reply(update_config(s1, TRUE), t, "unlinked")
        ELSE Reply(s1, t, "error")

\* unlink_entities after 'Processing...' and get_entity
unlink_entities(s, t, io) ==
    LET base == Resolve[s.tasks[t].msg.cmd.a]
        entities == s.config.entities
        r == RemoveLoop(entities, 1, entities, base, 0)
        s1 == [s EXCEPT !.config.entities = r.list, !.tasks[t].count = r.count,
                        !.tasks[t].res = <<base>>]
    IN  IF ~io.found THEN Reply(s, t, "error")
        ELSE IF r.count > 0
        THEN IF io.wr THEN Reply(update_config(s1, TRUE), t, "unlinked")
             ELSE Reply(s1, t, "error")
        ELSE Reply(s1, t, "no_links")

\* The command handlers in registration order.  A text matches the pattern
\* of at most one of them.  link and unlink first reply 'Processing...' and
\* resolve the names: they suspend before they read the configuration.
\* unlink matches its text a second time with a pattern that has no leading
\* minus sign and returns when that fails.
\* sync_dialogs, get_filters, get_settings, get_linked_entities and get_help
\* read and reply.  The patterns of the three switches accept 'o:n', which
\* their handlers take for neither 'on' nor 'off'.
commands(s, t, io) ==
    LET op == s.tasks[t].msg.cmd.op
    IN  CASE op = "link" ->
                [s EXCEPT !.tasks[t].pc = "link_wait", !.tasks[t].reply = "processing"]
          [] op = "unlink" ->
                IF s.tasks[t].msg.cmd.a \in Negative
                THEN [s EXCEPT !.tasks[t].pc = "done"]
                ELSE [s EXCEPT !.tasks[t].pc = "unlink_wait",
                               !.tasks[t].reply = "processing"]
          [] op = "add_filter" -> add_filter(s, t, io)
          [] op = "remove_filter" -> remove_filter(s, t, io)
          [] op \in {"on", "off"} -> change_bot_status(s, t, io)
          [] op \in {"filters_on", "filters_off"} -> change_filters_status(s, t, io)
          [] op \in {"sign_on", "sign_off"} -> change_signature_status(s, t, io)
          [] op = "sign_text" -> change_signature_text(s, t, io)
          [] op \in {"sync", "filters", "settings", "links", "help"} ->
                Reply(s, t, "info")
          [] op \in {"o:n", "filters_o:n", "sign_o:n"} ->
                [s EXCEPT !.tasks[t].pc = "done"]
          [] OTHER -> [s EXCEPT !.tasks[t].pc = "done"]

Privileged(m) == m.sender = Me \/ m.sender \in Sudo

\* forbid_non_sudo_commands that lets every sender through
forbid_everyone_passes(s, t, io) == commands(s, t, io)

\* forbid_non_sudo_commands (incoming=True): awaits get_sender and get_me
\* before it decides.
forbid_non_sudo_commands(s, t, io) ==
    IF Privileged(s.tasks[t].msg)
    THEN commands(s, t, io)
    ELSE [s EXCEPT !.tasks[t].pc = "stopped"]

\* The handlers registered after forwarder.
after_forwarder(s, t, io) ==
    IF s.tasks[t].msg.out
    THEN commands(s, t, io)
    ELSE [s EXCEPT !.tasks[t].pc = "forbid_wait"]

(***************************************************************************)
(* The forwarder.                                                          *)
(***************************************************************************)

\* for entity_pair in entities: if entity_pair[0] == chat_id: append [1]
RECURSIVE TargetEntities(_, _, _)
TargetEntities(entities, i, chat_id) ==
    IF i > Len(entities) THEN <<>>
    ELSE IF entities[i][1] = chat_id
         THEN <<entities[i][2]>> \o TargetEntities(entities, i + 1, chat_id)
         ELSE TargetEntities(entities, i + 1, chat_id)

MatchAt(text, i, word) ==
    /\ i + Len(word) - 1 <= Len(text)
    /\ \A k \in 1..Len(word) : Lower(text[i + k - 1]) = Lower(word[k])

\* re.sub takes its second argument as a replacement template: a backslash
\* starts an escape.  Of the characters used here, these are the escapes
\* that stand for a character, the ASCII letters and the digits that start
\* a group reference.
Escapes == ("n" :> "\n") @@ ("\\" :> "\\") @@ ("a" :> "<BEL>") @@ ("b" :> "<BS>")
               @@ ("t" :> "\t") @@ ("r" :> "\r")
AsciiLetters == {"a", "A", "b", "B", "n", "H", "e", "l", "o", "w", "r", "d",
                 "h", "i", "t"}
GroupDigits == {"1"}

\* whether the template compiles: a backslash at the end, before a letter
\* that is no escape, or before the number of a group the pattern does not
\* have (the escaped from_word has no group) raises re.error
RECURSIVE TemplateOk(_, _)
TemplateOk(to_word, i) ==
    IF i > Len(to_word) THEN TRUE
    ELSE IF to_word[i] # "\\" THEN TemplateOk(to_word, i + 1)
    ELSE IF i = Len(to_word) THEN FALSE
    ELSE IF to_word[i + 1] \in DOMAIN Escapes THEN TemplateOk(to_word, i + 2)
    ELSE IF to_word[i + 1] \in AsciiLetters \cup GroupDigits THEN FALSE
    ELSE TemplateOk(to_word, i + 2)

\* the text a template that compiles stands for
RECURSIVE TemplateText(_, _)
TemplateText(to_word, i) ==
    IF i > Len(to_word) THEN <<>>
    ELSE IF to_word[i] # "\\" THEN <<to_word[i]>> \o TemplateText(to_word, i + 1)
    ELSE IF to_word[i + 1] \in DOMAIN Escapes
         THEN <<Escapes[to_word[i + 1]]>> \o TemplateText(to_word, i + 2)
         ELSE <<"\\", to_word[i + 1]>> \o TemplateText(to_word, i + 2)

\* re.sub('(?i)' + re.escape(from_word), ..., text) with the replacement
\* text to_word: leftmost matches, left to right, not overlapping; an empty
\* from_word matches before every character and at the end
RECURSIVE Sub(_, _, _, _)
Sub(text, i, from_word, to_word) ==
    IF i > Len(text) THEN (IF from_word = <<>> THEN to_word ELSE <<>>)
    ELSE IF from_word = <<>>
         THEN to_word \o <<text[i]>> \o Sub(text, i + 1, from_word, to_word)
    ELSE IF MatchAt(text, i, from_word)
         THEN to_word \o Sub(text, i + Len(from_word), from_word, to_word)
         ELSE <<text[i]>> \o Sub(text, i + 1, from_word, to_word)

RECURSIVE ApplyFilters(_, _, _)
ApplyFilters(filters, i, text) ==
    IF i > Len(filters) THEN text
    ELSE ApplyFilters(filters, i + 1,
                      Sub(text, 1, filters[i][1], TemplateText(filters[i][2], 1)))

\* whether the filter loop runs to its end: no re.sub raises
FiltersOk(cfg) ==
    cfg.filter_words =>
        \A i \in DOMAIN cfg.filters : TemplateOk(cfg.filters[i][2], 1)

\* a filter loop that does not look at the switch
Filtered_always(cfg, text) == ApplyFilters(cfg.filters, 1, text)

\* message_text after the filter loop
Filtered(cfg, text) ==
    IF cfg.filter_words THEN ApplyFilters(cfg.filters, 1, text) ELSE text

\* a signature block without its inner test
Signed_empty_too(cfg, message_text) ==
    IF cfg.add_signature /\ cfg.signature # <<>>
    THEN message_text \o <<"\n", "\n">> \o cfg.signature
    ELSE message_text

\* message_text after the signature block
Signed(cfg, message_text) ==
    IF cfg.add_signature /\ cfg.signature # <<>> /\ message_text # <<>>
    THEN message_text \o <<"\n", "\n">> \o cfg.signature
    ELSE message_text

\* message_text of forwarder: the filters, then the signature
Transform(cfg, text) == Signed(cfg, Filtered(cfg, text))

\* the id the provider gives the message sent to target: one more than the
\* number of messages already recorded for that chat
SentId(s, target) ==
    1 + Cardinality({e \in UNION {{<<k, i>> : i \in DOMAIN s.mappings[k]}
                                        : k \in DOMAIN s.mappings} :
                        s.mappings[e[1]][e[2]][1] = target})

\* a store that keeps only the newest entry of a key
store_message_mapping_overwrite(s, base_entity, base_message_id, target_entity, target_message_id) ==
    LET key == <<base_entity, base_message_id>>
    IN  [s EXCEPT !.mappings[key] = <<<<target_entity, target_message_id>>>>]

store_message_mapping(s, base_entity, base_message_id, target_entity, target_message_id) ==
    LET key == <<base_entity, base_message_id>>
    IN  [s EXCEPT !.mappings[key] = Append(@, <<target_entity, target_message_id>>)]

\* after the loop: self.processed_messages += 1, and the status file is
\* rewritten on every tenth message
counted(s) ==
    LET s1 == [s EXCEPT !.processed_messages = @ + 1]
    IN  IF s1.processed_messages % 10 = 0
        THEN [s1 EXCEPT !.boot = update_status(@, Periodic)]
        ELSE s1

\* a forwarder that counts the messages of chats without a rule too
forwarder_counts_unmatched(s, t, io) ==
    after_forwarder(counted(s), t, io)

\* forwarder up to its first await.  The message id is the task's number.
\* A re.sub that raises ends the handler; the dispatch goes on.
forwarder(s, t, io) ==
    LET m == s.tasks[t].msg
        target_entities == TargetEntities(s.config.entities, 1, m.chat)
    IN  IF target_entities = <<>> THEN after_forwarder(s, t, io)
        ELSE IF m.kind = "poll"
        THEN [s EXCEPT !.tasks[t].targets = target_entities, !.tasks[t].idx = 1,
                       !.tasks[t].pc = "poll_wait"]
        ELSE IF ~FiltersOk(s.config)
        THEN after_forwarder([s EXCEPT !.tasks[t].targets = target_entities], t, io)
        ELSE [s EXCEPT !.tasks[t].targets = target_entities, !.tasks[t].idx = 1,
                       !.tasks[t].message_text = Transform(s.config, m.text),
                       !.tasks[t].pc = "send_wait"]

\* a send loop without the delay between two sends
forwarder_send_no_delay(s, t, io) ==
    LET task == s.tasks[t]
    IN  [s EXCEPT !.tasks[t].attempts =
                      Append(@, [target |-> task.targets[task.idx],
                                 ok |-> io.ok, text |-> task.message_text,
                                 stored |-> FALSE]),
                  !.tasks[t].idx = IF task.idx < Len(task.targets)
                                   THEN @ + 1 ELSE @,
                  !.tasks[t].pc = IF task.idx < Len(task.targets)
                                  THEN "send_wait" ELSE "sleep_wait"]

\* a send loop that transforms the text again before every send
forwarder_send_rereads(s, t, io) ==
    LET task == s.tasks[t]
    IN  [s EXCEPT !.tasks[t].attempts =
                      Append(@, [target |-> task.targets[task.idx],
                                 ok |-> io.ok,
                                 text |-> Transform(s.config, task.msg.text),
                                 stored |-> FALSE]),
                  !.tasks[t].logged = @ + 1,
                  !.tasks[t].pc = "sleep_wait"]

\* One turn of the send loop: send_message to the current target returns
\* (io.ok) or raises; a message that was sent is recorded in the mapping file
\* unless the file cannot be read or written (io.wr).  Either failure is
\* caught and logged with logging.error; then the handler sleeps.
forwarder_send(s, t, io) ==
    LET task == s.tasks[t]
        target == task.targets[task.idx]
        stored == io.ok /\ io.wr
        s1 == [s EXCEPT !.tasks[t].attempts =
                            Append(@, [target |-> target, ok |-> io.ok,
                                       text |-> task.message_text,
                                       stored |-> stored]),
                        !.tasks[t].logged = IF stored THEN @ ELSE @ + 1,
                        !.tasks[t].pc = "sleep_wait"]
    IN  IF stored
        THEN store_message_mapping(s1, task.msg.chat, t, target, SentId(s, target))
        ELSE s1

\* a loop that counts every destination
forwarder_sleep_per_target(s, t, io) ==
    LET task == s.tasks[t]
        s1 == [s EXCEPT !.processed_messages = @ + 1]
    IN  IF task.idx < Len(task.targets)
        THEN [s1 EXCEPT !.tasks[t].idx = @ + 1, !.tasks[t].pc = "send_wait"]
        ELSE after_forwarder(s1, t, io)

\* after asyncio.sleep(0.5): the next target, or the end of the loop
forwarder_sleep(s, t, io) ==
    LET task == s.tasks[t]
    IN  IF task.idx < Len(task.targets)
        THEN [s EXCEPT !.tasks[t].idx = @ + 1, !.tasks[t].pc = "send_wait"]
        ELSE after_forwarder(counted(s), t, io)

\* message.forward_to(target) of the poll branch returns or raises.  Nothing
\* catches the exception: it ends the handler, and the dispatch goes on.
forwarder_poll(s, t, io) ==
    LET task == s.tasks[t]
        s1 == [s EXCEPT !.tasks[t].attempts =
                            Append(@, [target |-> task.targets[task.idx],
                                       ok |-> io.ok, text |-> task.msg.text,
                                       stored |-> FALSE])]
    IN  IF ~io.ok THEN after_forwarder(s1, t, io)
        ELSE IF task.idx < Len(task.targets)
        THEN [s1 EXCEPT !.tasks[t].idx = @ + 1]
        ELSE after_forwarder(
                 [s1 EXCEPT !.processed_messages = @ + 1], t, io)

\* check_status (incoming=True) after get_sender and get_me
check_status_resume(s, t, io) ==
    IF Privileged(s.tasks[t].msg)
    THEN forwarder(s, t, io)
    ELSE [s EXCEPT !.tasks[t].pc = "stopped"]

\* a check_status that ends the dispatch while the bot is disabled
check_status_drops_when_disabled(s, t, io) ==
    IF ~s.config.bot_enabled
    THEN [s EXCEPT !.tasks[t].pc = "stopped"]
    ELSE [s EXCEPT !.tasks[t].pc = "status_wait"]

\* check_status (incoming=True) up to its first await
check_status(s, t, io) ==
    IF ~s.config.bot_enabled
    THEN forwarder(s, t, io)
    ELSE [s EXCEPT !.tasks[t].pc = "status_wait"]

\* The client library hands a new update to the handlers whose event filter
\* it passes, in registration order.
dispatch(s, t, io) ==
    IF s.tasks[t].msg.out THEN forwarder(s, t, io) ELSE check_status(s, t, io)

(***************************************************************************)
(* Actions: one per resumption of a task.                                  *)
(***************************************************************************)
IO == [found : BOOLEAN, wr : BOOLEAN, ok : BOOLEAN]
Fine == [found |-> TRUE, wr |-> TRUE, ok |-> TRUE]
\* the answers a step can depend on
WriteIO == {[Fine EXCEPT !.wr = w] : w \in BOOLEAN}
ResolveIO == WriteIO \cup {[Fine EXCEPT !.found = FALSE]}
SendIO == {[Fine EXCEPT !.ok = o] : o \in BOOLEAN}
PollIO == WriteIO \cup SendIO
StoreIO == SendIO \cup {[Fine EXCEPT !.wr = FALSE]}

\* Updates arrive in the order of the task numbers.
Deliver(t, m, io) ==
    /\ tasks[t].pc = "idle"
    /\ \A u \in 1..(t - 1) : tasks[u].pc # "idle"
    /\ Install(dispatch([Cur EXCEPT !.tasks[t].msg = m,
                                    !.tasks[t].en = config.bot_enabled,
                                    !.tasks[t].pc = "new"], t, io))

CheckStatusDone(t, io) ==
    /\ tasks[t].pc = "status_wait"
    /\ Install(check_status_resume(Cur, t, io))

ForbidDone(t, io) ==
    /\ tasks[t].pc = "forbid_wait"
    /\ Install(forbid_non_sudo_commands(Cur, t, io))

LinkResolved(t, io) ==
    /\ tasks[t].pc = "link_wait"
    /\ Install(link_entities(Cur, t, io))

UnlinkResolved(t, io) ==
    /\ tasks[t].pc = "unlink_wait"
    /\ Install(unlink_entities(Cur, t, io))

SendDone(t, io) ==
    /\ tasks[t].pc = "send_wait"
    /\ Install(forwarder_send(Cur, t, io))

SleepDone(t, io) ==
    /\ tasks[t].pc = "sleep_wait"
    /\ Install(forwarder_sleep(Cur, t, io))

PollDone(t, io) ==
    /\ tasks[t].pc = "poll_wait"
    /\ Install(forwarder_poll(Cur, t, io))

(***************************************************************************)
(* Startup: main() of the bot process.  boot is the state of the one        *)
(* LiveCloner object outside the dispatch of updates: where main stands,    *)
(* what the command line and the loaded config gave it, is_running, the     *)
(* client, whether the handlers are registered, every snapshot written to   *)
(* the status file (the last one is the file), and what --test-session      *)
(* prints.  Each action resumes main at one await of the client library;    *)
(* ok says whether the awaited call returns or raises.                      *)
(***************************************************************************)
NoResult == [success |-> FALSE, keys |-> {}]
Success == [success |-> TRUE, keys |-> {"success", "userInfo"}]
Failure == [success |-> FALSE, keys |-> {"success", "error"}]

Sessions == {"none", "unauthorized", "valid"}

\* the object as __init__ leaves it, with the command line of main()
Constructed(test, session, api) ==
    [pc |-> "main", test |-> test, session |-> session, api |-> api,
     is_running |-> FALSE, client |-> "none", handlers |-> FALSE,
     looped |-> FALSE, status |-> <<>>, result |-> NoResult,
     todo |-> {}, failed_entities |-> {}, attempted |-> <<>>,
     signalled |-> FALSE]

\* run(), finally: is_running = False; disconnect if there is a client;
\* the 'Bot stopped' snapshot
run_finally(b) ==
    LET b1 == [b EXCEPT !.is_running = FALSE]
    IN  IF b1.client # "none"
        THEN [b1 EXCEPT !.pc = "disconnect"]
        ELSE [update_status(b1, Stopped) EXCEPT !.pc = "exited"]

\* start_client(), except: the error snapshot, return False; then run():
\* is_running = False; return, through finally
start_failed(b) ==
    run_finally([update_status(b, Error) EXCEPT !.is_running = FALSE])

\* start_client() up to await self.client.start()
start_client(b) ==
    IF b.session = "none" \/ ~b.api
    THEN start_failed(b)
    ELSE [b EXCEPT !.client = "open", !.pc = "start"]

\* run() up to the first await
run(b) ==
    start_client(update_status([b EXCEPT !.is_running = TRUE], Starting))

\* register_event_handlers(), return True; run(): the running snapshot,
\* await self.client.run_until_disconnected()
start_succeeded(b) ==
    [update_status([b EXCEPT !.handlers = TRUE], Running)
        EXCEPT !.pc = "loop", !.looped = TRUE]

\* unique_entities of pre_resolve_entities
UniqueEntities(cfg) ==
    {cfg.entities[i][1] : i \in DOMAIN cfg.entities}
        \cup {cfg.entities[i][2] : i \in DOMAIN cfg.entities}

\* pre_resolve_entities() up to its first await
pre_resolve_entities(b, cfg) ==
    IF UniqueEntities(cfg) = {}
    THEN start_succeeded(b)
    ELSE [b EXCEPT !.pc = "resolve", !.todo = UniqueEntities(cfg)]

\* test_session() without its except clause: the exception leaves main()
test_failed_uncaught(b) ==
    [b EXCEPT !.pc = "raised"]

\* test_session(), except: return {success: False, error}; main prints it
test_failed(b) ==
    [b EXCEPT !.pc = "exited", !.result = Failure]

\* test_session() up to await client.start()
test_session(b) ==
    IF b.session = "none" \/ ~b.api
    THEN test_failed(b)
    ELSE [b EXCEPT !.pc = "test_start"]

\* main()
Main ==
    /\ boot.pc = "main"
    /\ boot' = IF boot.test THEN test_session(boot) ELSE run(boot)
    /\ UNCHANGED <<config, file, tasks, mappings, processed_messages, copier, web, validator>>

\* await self.client.start()
ClientStart(ok) ==
    /\ boot.pc = "start"
    /\ boot' = IF ok THEN [boot EXCEPT !.pc = "authorized"]
                     ELSE start_failed(boot)
    /\ UNCHANGED <<config, file, tasks, mappings, processed_messages, copier, web, validator>>

\* if not await self.client.is_user_authorized(): raise ValueError
Authorized(ok) ==
    /\ boot.pc = "authorized"
    /\ boot' = IF ok /\ boot.session = "valid"
               THEN [boot EXCEPT !.pc = "get_me"]
               ELSE start_failed(boot)
    /\ UNCHANGED <<config, file, tasks, mappings, processed_messages, copier, web, validator>>

\* me = await self.client.get_me()
GetMe(ok) ==
    /\ boot.pc = "get_me"
    /\ boot' = IF ok THEN [boot EXCEPT !.pc = "get_dialogs"]
                     ELSE start_failed(boot)
    /\ UNCHANGED <<config, file, tasks, mappings, processed_messages, copier, web, validator>>

\* await self.client.get_dialogs() in its own try: a failure is a warning
GetDialogs(ok) ==
    /\ boot.pc = "get_dialogs"
    /\ boot' = pre_resolve_entities(boot, config)
    /\ UNCHANGED <<config, file, tasks, mappings, processed_messages, copier, web, validator>>

\* the loop of pre_resolve_entities without the try around get_entity: the
\* first failure reaches the except clause of start_client
ResolveEntity_aborts(e, ok) ==
    /\ boot.pc = "resolve"
    /\ e \in boot.todo
    /\ LET b1 == [boot EXCEPT !.todo = @ \ {e},
                              !.attempted = Append(@, e),
                              !.failed_entities =
                                  IF ok THEN @ ELSE @ \cup {e}]
       IN  boot' = IF ~ok THEN start_failed(b1)
                   ELSE IF b1.todo = {} THEN start_succeeded(b1) ELSE b1
    /\ UNCHANGED <<config, file, tasks, mappings, processed_messages, copier, web, validator>>

\* for entity_id in unique_entities: await self.client.get_entity(entity_id)
\* in its own try; a set is walked in no order the rule list fixes.
\* attempted lists the ids handed to get_entity, in the order of the calls.
ResolveEntity(e, ok) ==
    /\ boot.pc = "resolve"
    /\ e \in boot.todo
    /\ LET b1 == [boot EXCEPT !.todo = @ \ {e},
                              !.attempted = Append(@, e),
                              !.failed_entities =
                                  IF ok THEN @ ELSE @ \cup {e}]
       IN  boot' = IF b1.todo = {} THEN start_succeeded(b1) ELSE b1
    /\ UNCHANGED <<config, file, tasks, mappings, processed_messages, copier, web, validator>>

\* await self.client.run_until_disconnected() returns or raises
Disconnected(ok) ==
    /\ boot.pc = "loop"
    /\ boot' = IF ok THEN run_finally(boot)
                     ELSE run_finally(update_status(boot, Error))
    /\ UNCHANGED <<config, file, tasks, mappings, processed_messages, copier, web, validator>>

\* finally: await self.client.disconnect(); the 'Bot stopped' snapshot.
\* An exception here leaves run() and main().
ClientDisconnect(ok) ==
    /\ boot.pc = "disconnect"
    /\ boot' = IF ok
               THEN [update_status([boot EXCEPT !.client = "closed"], Stopped)
                        EXCEPT !.pc = "exited"]
               ELSE [boot EXCEPT !.pc = "raised"]
    /\ UNCHANGED <<config, file, tasks, mappings, processed_messages, copier, web, validator>>

\* test_session: await client.start()
TestStart(ok) ==
    /\ boot.pc = "test_start"
    /\ boot' = IF ok THEN [boot EXCEPT !.pc = "test_authorized"]
                     ELSE test_failed(boot)
    /\ UNCHANGED <<config, file, tasks, mappings, processed_messages, copier, web, validator>>

\* test_session: if await client.is_user_authorized()
TestAuthorized(ok) ==
    /\ boot.pc = "test_authorized"
    /\ boot' = IF ~ok THEN test_failed(boot)
               ELSE IF boot.session = "valid"
                    THEN [boot EXCEPT !.pc = "test_get_me"]
                    ELSE [boot EXCEPT !.pc = "test_disconnect",
                                      !.result = Failure]
    /\ UNCHANGED <<config, file, tasks, mappings, processed_messages, copier, web, validator>>

\* test_session: me = await client.get_me()
TestGetMe(ok) ==
    /\ boot.pc = "test_get_me"
    /\ boot' = IF ok THEN [boot EXCEPT !.pc = "test_disconnect",
                                       !.result = Success]
                     ELSE test_failed(boot)
    /\ UNCHANGED <<config, file, tasks, mappings, processed_messages, copier, web, validator>>

\* test_session: await client.disconnect(); return the result; main prints
TestDisconnect(ok) ==
    /\ boot.pc = "test_disconnect"
    /\ boot' = IF ok THEN [boot EXCEPT !.pc = "exited"]
                     ELSE test_failed(boot)
    /\ UNCHANGED <<config, file, tasks, mappings, processed_messages, copier, web, validator>>

\* the bot as the dispatch of updates finds it: started, in its run loop
Started ==
    start_succeeded(
        update_status([Constructed(FALSE, "valid", TRUE)
                          EXCEPT !.is_running = TRUE, !.client = "open"],
                      Starting))

(***************************************************************************)
(* Shutdown: SIGINT or SIGTERM.  The handler of __init__ runs between two   *)
(* steps of the event loop and ends in sys.exit(0); the SystemExit leaves   *)
(* the loop, and asyncio.run(main()) cancels every task that is still       *)
(* suspended (CancelledError is no Exception, so no except clause of a      *)
(* handler keeps it) and lets run() reach its finally.                      *)
(***************************************************************************)
Alive == boot.pc \notin {"exited", "raised"}

Suspended == {"status_wait", "forbid_wait", "link_wait", "unlink_wait",
              "send_wait", "sleep_wait", "poll_wait"}

\* signal_handler up to sys.exit(0): is_running = False and, with a client,
\* self.client.disconnect() called and not awaited
signal_handler(b) ==
    [b EXCEPT !.is_running = FALSE,
              !.client = IF @ = "open" THEN "closing" ELSE @,
              !.signalled = TRUE]

\* an exit that lets the suspended handlers run on
cancel_none(s) == s

\* the handlers suspended at an await end there
cancel_all_tasks(s) ==
    [s EXCEPT !.tasks =
        [t \in Tasks |-> IF s.tasks[t].pc \in Suspended
                         THEN [s.tasks[t] EXCEPT !.pc = "cancelled"]
                         ELSE s.tasks[t]]]

\* sys.exit(0): before run() and in test_session nothing catches it and no
\* finally stands in its way; inside run() the finally clause is next, and
\* a finally clause that is already waiting for the disconnect is left
system_exit(s) ==
    LET s1 == cancel_all_tasks(s)
    IN  [s1 EXCEPT !.boot = IF @.test \/ @.pc = "main"
                             THEN [@ EXCEPT !.pc = "exited"]
                             ELSE IF @.pc = "disconnect"
                             THEN [@ EXCEPT !.pc = "exited"]
                             ELSE run_finally(@)]

\* the process receives SIGINT or SIGTERM
Signal ==
    /\ Alive
    /\ ~boot.signalled
    /\ Install(system_exit([Cur EXCEPT !.boot = signal_handler(@)]))

(***************************************************************************)
(* The copier (python-copier/forwarder.py, settings.py): forward_job walks  *)
(* the forward pairs of config.ini and sends every message of the source    *)
(* chat after the stored offset to the destination chat.  copier is the     *)
(* state of one job: where it stands, the pair and the message at hand, the *)
(* offsets in memory (configur) and in config.ini, the messages that        *)
(* reached each destination, and the messages whose send was rate-limited;  *)
(* began holds the offsets that the run at hand found in config.ini, runs    *)
(* counts the runs.                                                         *)
(***************************************************************************)
Forwards == <<"f1", "f2">>

\* ids of the messages of a source chat, oldest first
History == <<1, 2, 3>>

Offsets == {0, 1}

IdleCopier ==
    [pc |-> "idle", fwd |-> 1, message |-> 0, service |-> {},
     offset |-> [f \in Range(Forwards) |-> 0],
     ini |-> [f \in Range(Forwards) |-> 0],
     last_id |-> 0, sent |-> [f \in Range(Forwards) |-> <<>>],
     flooded |-> {}, error_occured |-> FALSE, total_messages |-> 0,
     began |-> [f \in Range(Forwards) |-> 0], runs |-> 1]

\* client.iter_messages(from_chat, reverse=True, offset_id=after), service
\* messages skipped: the id of the next message to send, 0 when there is none
NextId(c, after) ==
    LET later == {i \in Range(History) : i > after /\ i \notin c.service}
    IN  IF later = {} THEN 0
        ELSE CHOOSE i \in later : \A j \in later : i <= j

RECURSIVE begin_forward(_)

\* async for message in client.iter_messages(...): the next message, or the
\* end of this forward pair
iter_messages(c, after) ==
    IF NextId(c, after) = 0
    THEN begin_forward([c EXCEPT !.fwd = @ + 1])
    ELSE [c EXCEPT !.pc = "send", !.message = NextId(c, after)]

\* for forward in forwards: get_forward, last_id = offset, the first message;
\* after the last pair, the completion message
begin_forward(c) ==
    IF c.fwd > Len(Forwards)
    THEN [c EXCEPT !.pc = "notify", !.message = 0]
    ELSE iter_messages([c EXCEPT !.last_id = c.offset[Forwards[c.fwd]]],
                       c.offset[Forwards[c.fwd]])

\* update_offset: configur.set, then config.ini is written
update_offset(c, forward, new_offset, wr) ==
    [c EXCEPT !.offset[forward] = new_offset,
              !.ini = IF wr THEN [c.offset EXCEPT ![forward] = new_offset]
                            ELSE @]

\* except Exception: error_occured = True; break
forward_broken(c) ==
    begin_forward([c EXCEPT !.error_occured = TRUE, !.fwd = @ + 1])

\* except FloodWaitError without the message that was refused: the loop goes
\* on with the message after it
flood_wait_over(c) ==
    iter_messages(c, c.message)

\* reload_config(): configur and forwards are read from config.ini again
reload_config(c) ==
    [c EXCEPT !.offset = c.ini, !.began = c.ini]

\* forward_job() up to the first send
ForwardJob ==
    /\ copier.pc = "start"
    /\ copier' = begin_forward(reload_config(copier))
    /\ UNCHANGED vars_bot

\* await client.send_message(to_chat, message): sent and the offset stored,
\* refused with FloodWaitError, or another exception
SendMessage(outcome, wr) ==
    /\ copier.pc = "send"
    /\ LET f == Forwards[copier.fwd]
           c1 == [copier EXCEPT !.sent[f] = Append(@, copier.message),
                                !.last_id = copier.message,
                                !.total_messages = @ + 1]
           c2 == update_offset(c1, f, copier.message, wr)
       IN  copier' =
             CASE outcome = "sent" ->
                    IF wr THEN [c2 EXCEPT !.pc = "sleep"]
                          ELSE forward_broken(c2)
               [] outcome = "flood" ->
                    [copier EXCEPT !.pc = "flood_wait",
                                   !.flooded = @ \cup {<<f, copier.message>>}]
               [] OTHER -> forward_broken(copier)
    /\ UNCHANGED vars_bot

\* await asyncio.sleep(0.1), then the next message
CopierSleep ==
    /\ copier.pc = "sleep"
    /\ copier' = iter_messages(copier, copier.message)
    /\ UNCHANGED vars_bot

\* await asyncio.sleep(fwe.seconds), then the loop goes on
FloodWait ==
    /\ copier.pc = "flood_wait"
    /\ copier' = flood_wait_over(copier)
    /\ UNCHANGED vars_bot

\* await client.send_message('me', completion_msg) in its own try
Notify(ok) ==
    /\ copier.pc = "notify"
    /\ copier' = [copier EXCEPT !.pc = "done"]
    /\ UNCHANGED vars_bot

\* the script is started again: a new process, which knows of the run before
\* it only what config.ini holds
Restart ==
    /\ copier.pc = "done"
    /\ copier.runs < MaxRuns
    /\ copier' = [copier EXCEPT !.pc = "start", !.runs = @ + 1, !.fwd = 1,
                                !.message = 0, !.last_id = 0,
                                !.offset = copier.ini,
                                !.error_occured = FALSE,
                                !.total_messages = 0]
    /\ UNCHANGED vars_bot

(***************************************************************************)
(* WebIntegratedBot (src/server/bot/bot_runner.py), the object the web      *)
(* application drives.  web is its state: the client (TRUE once initialize  *)
(* has made one), is_running, the method that is suspended at an await, and *)
(* calls, the methods that have ended with what each returned, oldest       *)
(* first.  One method runs at a time.                                       *)
(***************************************************************************)
NewWeb == [pc |-> "idle", client |-> FALSE, is_running |-> FALSE, calls |-> <<>>]

\* a method ends
Returns(w, method, value) ==
    [w EXCEPT !.pc = "idle", !.calls = Append(@, [call |-> method, value |-> value])]

\* initialize: the constructor of the client returns, or raises (api_id
\* missing or no number) into the except clause
initialize(w, ok) ==
    IF ok THEN Returns([w EXCEPT !.client = TRUE], "initialize", "True")
          ELSE Returns(w, "initialize", "False")

\* start_bot up to await self.client.start(...)
start_bot(w) ==
    IF ~w.client THEN Returns(w, "start_bot", "False")
    ELSE [w EXCEPT !.pc = "start"]

\* start_bot after the await: client.start raised; or it returned,
\* is_running = True, and then the import of bottorrent, TelegramBot() or
\* setup_handlers raised; or all of it went through
start_bot_resume(w, outcome) ==
    CASE outcome = "start_raises" -> Returns(w, "start_bot", "False")
      [] outcome = "setup_raises" ->
            Returns([w EXCEPT !.is_running = TRUE], "start_bot", "False")
      [] OTHER -> Returns([w EXCEPT !.is_running = TRUE], "start_bot", "True")

\* stop_bot up to await self.client.disconnect()
stop_bot(w) ==
    IF w.client /\ w.is_running THEN [w EXCEPT !.pc = "disconnect"]
    ELSE Returns(w, "stop_bot", "False")

\* stop_bot after the await; nothing catches an exception of disconnect
stop_bot_resume(w, ok) ==
    IF ok THEN Returns([w EXCEPT !.is_running = FALSE], "stop_bot", "True")
          ELSE Returns(w, "stop_bot", "raised")

Initialize(ok) ==
    /\ web.pc = "idle"
    /\ Len(web.calls) < MaxCalls
    /\ web' = initialize(web, ok)
    /\ UNCHANGED vars_cloner

StartBot ==
    /\ web.pc = "idle"
    /\ Len(web.calls) < MaxCalls
    /\ web' = start_bot(web)
    /\ UNCHANGED vars_cloner

ClientStarted(outcome) ==
    /\ web.pc = "start"
    /\ web' = start_bot_resume(web, outcome)
    /\ UNCHANGED vars_cloner

StopBot ==
    /\ web.pc = "idle"
    /\ Len(web.calls) < MaxCalls
    /\ web' = stop_bot(web)
    /\ UNCHANGED vars_cloner

ClientDisconnected(ok) ==
    /\ web.pc = "disconnect"
    /\ web' = stop_bot_resume(web, ok)
    /\ UNCHANGED vars_cloner

(***************************************************************************)
(* AutoStartValidator (src/bot_source/live-cloning/auto_start_validator.py) *)
(* and its one instance auto_start_validator.  validator holds the lists    *)
(* critical_errors and warnings, requirements_met, the number of validate_  *)
(* methods called directly, and the report of run_pre_start_validation.     *)
(* An entry of a list is the validation that wrote it and how.  No method   *)
(* awaits: each runs from call to return in one step.                       *)
(*                                                                         *)
(* env says what a validation finds: critical, a required thing is missing; *)
(* warning, an optional thing is missing; raises, a call outside every try  *)
(* statement of the method raises.                                          *)
(***************************************************************************)
MaxDirect == 1      \* validate_ methods called directly in one behaviour
MaxFindings == 2    \* validations of one run that find anything

NoReport ==
    [made |-> FALSE, requirements_met |-> TRUE, auto_start_guaranteed |-> TRUE,
     validation_results |-> <<>>, critical_errors |-> <<>>]

NewValidator ==
    [critical_errors |-> <<>>, warnings |-> <<>>, requirements_met |-> TRUE,
     called |-> 0, report |-> NoReport]

Clean == [critical |-> FALSE, warning |-> FALSE, raises |-> FALSE]

\* self.critical_errors.append(...) followed by self.requirements_met = False
critical(a, name) ==
    [a EXCEPT !.critical_errors = Append(@, [of |-> name, how |-> "found"]),
              !.requirements_met = FALSE]

\* self.warnings.append(...)
warn(a, name) ==
    [a EXCEPT !.warnings = Append(@, [of |-> name, how |-> "found"])]

\* the checks of a validation whose findings are critical: what the method
\* has done to the validator and the all_valid it returns
required_checks(a, name, env) ==
    IF env.critical THEN [val |-> critical(a, name), result |-> "False"]
                    ELSE [val |-> a, result |-> "True"]

\* the checks whose findings are warnings, after the ones of r
optional_checks(r, name, env) ==
    IF env.warning THEN [r EXCEPT !.val = warn(@, name)] ELSE r

\* everything is inside try: an exception ends in the except clause, which
\* appends and clears requirements_met like the two checks
validate_python_environment(a, env) ==
    required_checks(a, "Python Environment", env)

\* import_module of a required package raises ImportError, which the loop
\* catches, or another exception, which nothing in the method catches
validate_required_packages(a, env) ==
    LET r == required_checks(a, "Required Packages", env)
    IN  IF env.raises THEN [r EXCEPT !.result = "raised"]
        ELSE optional_checks(r, "Required Packages", env)

\* os.getcwd() in the third statement raises when the working directory is gone
validate_file_locations(a, env) ==
    IF env.raises THEN [val |-> a, result |-> "raised"]
    ELSE optional_checks(required_checks(a, "File Locations", env),
                         "File Locations", env)

validate_configuration_files(a, env) ==
    required_checks(a, "Configuration Files", env)

validate_environment_variables(a, env) ==
    optional_checks(required_checks(a, "Environment Variables", env),
                    "Environment Variables", env)

\* always returns True
validate_network_connectivity(a, env) ==
    optional_checks([val |-> a, result |-> "True"], "Network Connectivity", env)

\* an empty or undecodable string is critical and returns at once; a short
\* one is a warning
validate_session_string_format(a, env) ==
    IF env.critical THEN required_checks(a, "Session String Format", env)
    ELSE optional_checks([val |-> a, result |-> "True"],
                         "Session String Format", env)

\* os.path.abspath('.') of the first directory raises when the working
\* directory is gone
validate_write_permissions(a, env) ==
    IF env.raises THEN [val |-> a, result |-> "raised"]
    ELSE optional_checks(required_checks(a, "Write Permissions", env),
                         "Write Permissions", env)

\* the list validations of run_pre_start_validation, in its order; the last
\* one is there when a session string is given
Validations ==
    <<"Python Environment", "Required Packages", "File Locations",
      "Configuration Files", "Environment Variables", "Write Permissions",
      "Network Connectivity", "Session String Format">>

validation_func(name, a, env) ==
    CASE name = "Python Environment" -> validate_python_environment(a, env)
      [] name = "Required Packages" -> validate_required_packages(a, env)
      [] name = "File Locations" -> validate_file_locations(a, env)
      [] name = "Configuration Files" -> validate_configuration_files(a, env)
      [] name = "Environment Variables" -> validate_environment_variables(a, env)
      [] name = "Write Permissions" -> validate_write_permissions(a, env)
      [] name = "Network Connectivity" -> validate_network_connectivity(a, env)
      [] OTHER -> validate_session_string_format(a, env)

\* what each validation can find
Envs(name) ==
    {e \in [critical : BOOLEAN, warning : BOOLEAN, raises : BOOLEAN] :
        /\ e.critical => name # "Network Connectivity"
        /\ e.warning => name \notin {"Python Environment", "Configuration Files"}
        /\ e.warning => ~(e.critical /\ name = "Session String Format")
        /\ e.raises => name \in {"Required Packages", "File Locations",
                                 "Write Permissions"}
        /\ e.raises => (name = "Required Packages" /\ ~e.warning)
                       \/ (~e.critical /\ ~e.warning)}

\* one turn of the loop of run_pre_start_validation: r is the validator and
\* validation_results so far.  The except clause appends to critical_errors
\* and assigns nothing else.
validate_one(r, name, env) ==
    LET o == validation_func(name, r.val, env)
    IN  IF o.result = "raised"
        THEN [val |-> [o.val EXCEPT !.critical_errors =
                          Append(@, [of |-> name, how |-> "exception"])],
              results |-> Append(r.results, [name |-> name, result |-> "False"])]
        ELSE [val |-> o.val,
              results |-> Append(r.results, [name |-> name, result |-> o.result])]

RECURSIVE validate_all(_, _, _, _)
validate_all(r, i, n, envs) ==
    IF i > n THEN r
    ELSE validate_all(validate_one(r, Validations[i], envs[i]), i + 1, n, envs)

\* the report: both flags are self.requirements_met
generate_validation_report(a, validation_results) ==
    [a EXCEPT !.report =
        [made |-> TRUE, requirements_met |-> a.requirements_met,
         auto_start_guaranteed |-> a.requirements_met,
         validation_results |-> validation_results,
         critical_errors |-> a.critical_errors]]

\* n is 8 with a session string and 7 without
run_pre_start_validation(a, n, envs) ==
    LET r == validate_all([val |-> a, results |-> <<>>], 1, n, envs)
    IN  generate_validation_report(r.val, r.results)

\* a validate_ method called by itself
Validate(name, env) ==
    /\ validator.called < MaxDirect
    /\ ~validator.report.made
    /\ validator' = [validation_func(name, validator, env).val
                        EXCEPT !.called = @ + 1]
    /\ UNCHANGED <<config, file, tasks, mappings, processed_messages, boot,
                   copier, web>>

RunPreStartValidation(n, envs) ==
    /\ ~validator.report.made
    /\ validator' = run_pre_start_validation(validator, n, envs)
    /\ UNCHANGED <<config, file, tasks, mappings, processed_messages, boot,
                   copier, web>>

(***************************************************************************)
(* The patterns of the command handlers.  A command text is the sequence of *)
(* its words, the pieces between single spaces; a quoted word is one piece. *)
(* Each pattern is the set of word sequences its regular expression         *)
(* matches: the first letter of the first word in either case, '$' where    *)
(* the expression is anchored at the end.                                   *)
(***************************************************************************)
Handlers ==
    <<"sync_dialogs", "link_entities", "unlink_entities", "add_filter",
      "remove_filter", "get_filters", "get_settings", "get_linked_entities",
      "change_bot_status", "change_filters_status", "change_signature_status",
      "change_signature_text", "get_help">>

\* [Oo](:?n|ff): 'o' or 'O', then an optional colon and 'n', or 'ff'
OnOff == ("on" :> "on") @@ ("On" :> "on") @@ ("o:n" :> "o:n")
             @@ ("O:n" :> "o:n") @@ ("off" :> "off") @@ ("Off" :> "off")

\* the words of the model that begin with [Ss]ettings and with [Ll]inks
BeginSettings == {"settings", "Settings", "settingsx"}
BeginLinks == {"links", "Links", "linksx"}

\* \"(.+)\": the quoted words of the model and what they quote
Quoted == ("\"a\"" :> <<"a">>) @@ ("\"b\"" :> <<"b">>)

\* (.+) of 'sign text': the rest of the text, letter by letter
Spell == ("b" :> <<"b">>) @@ ("on" :> <<"o", "n">>)

\* the pattern a handler is registered with matches the text w
Pattern(h, w) ==
    CASE h = "sync_dialogs" -> Len(w) = 1 /\ w[1] \in {"sync", "Sync"}
      [] h = "link_entities" ->
            /\ Len(w) = 4 /\ w[1] \in {"link", "Link"}
            /\ w[2] \in Names /\ w[3] = "to" /\ w[4] \in Names
      [] h = "unlink_entities" ->
            Len(w) = 2 /\ w[1] \in {"unlink", "Unlink"} /\ w[2] \in Names
      [] h = "add_filter" ->
            /\ Len(w) = 5 /\ w[1] \in {"add", "Add"} /\ w[2] = "filter"
            /\ w[3] \in DOMAIN Quoted /\ w[4] = "to" /\ w[5] \in DOMAIN Quoted
      [] h = "remove_filter" ->
            /\ Len(w) = 3 /\ w[1] \in {"remove", "Remove"} /\ w[2] = "filter"
            /\ w[3] \in DOMAIN Quoted
      [] h = "get_filters" -> Len(w) = 1 /\ w[1] \in {"filters", "Filters"}
      [] h = "get_settings" -> Len(w) >= 1 /\ w[1] \in BeginSettings
      [] h = "get_linked_entities" -> Len(w) >= 1 /\ w[1] \in BeginLinks
      [] h = "change_bot_status" -> Len(w) = 1 /\ w[1] \in DOMAIN OnOff
      [] h = "change_filters_status" ->
            Len(w) = 2 /\ w[1] \in {"filters", "Filters"} /\ w[2] \in DOMAIN OnOff
      [] h = "change_signature_status" ->
            Len(w) = 2 /\ w[1] \in {"sign", "Sign"} /\ w[2] \in DOMAIN OnOff
      [] h = "change_signature_text" ->
            Len(w) >= 3 /\ w[1] \in {"sign", "Sign"} /\ w[2] = "text"
      [] h = "get_help" -> Len(w) = 1 /\ w[1] \in {"help", "Help"}

\* get_filters registered without the '$' of its pattern: 'filters on'
\* triggers it as well as change_filters_status
MatchesUnanchored(h, w) ==
    IF h = "get_filters" THEN Len(w) >= 1 /\ w[1] \in {"filters", "Filters"}
    ELSE Pattern(h, w)

\* whether the client library runs handler h for the text w
Matches(h, w) == Pattern(h, w)

\* the handlers the client library runs for a text, in registration order
Triggered(w) == SelectSeq(Handlers, LAMBDA h : Matches(h, w))

\* what a handler reads from the text
CmdOf(h, w) ==
    CASE h = "link_entities" -> [op |-> "link", a |-> w[2], b |-> w[4]]
      [] h = "unlink_entities" -> [op |-> "unlink", a |-> w[2], b |-> ""]
      [] h = "add_filter" ->
            [op |-> "add_filter", a |-> Quoted[w[3]], b |-> Quoted[w[5]]]
      [] h = "remove_filter" ->
            [op |-> "remove_filter", a |-> Quoted[w[3]], b |-> ""]
      [] h = "change_bot_status" -> [op |-> OnOff[w[1]], a |-> "", b |-> ""]
      [] h = "change_filters_status" ->
            [op |-> IF OnOff[w[2]] = "on" THEN "filters_on"
                    ELSE IF OnOff[w[2]] = "off" THEN "filters_off"
                    ELSE "filters_o:n", a |-> "", b |-> ""]
      [] h = "change_signature_status" ->
            [op |-> IF OnOff[w[2]] = "on" THEN "sign_on"
                    ELSE IF OnOff[w[2]] = "off" THEN "sign_off"
                    ELSE "sign_o:n", a |-> "", b |-> ""]
      [] h = "change_signature_text" ->
            [op |-> "sign_text", a |-> Spell[w[3]], b |-> ""]
      [] h = "sync_dialogs" -> [op |-> "sync", a |-> "", b |-> ""]
      [] h = "get_filters" -> [op |-> "filters", a |-> "", b |-> ""]
      [] h = "get_settings" -> [op |-> "settings", a |-> "", b |-> ""]
      [] h = "get_linked_entities" -> [op |-> "links", a |-> "", b |-> ""]
      [] h = "get_help" -> [op |-> "help", a |-> "", b |-> ""]

(***************************************************************************)
(* Initial states: the bot has loaded a config file, no update has arrived.*)
(***************************************************************************)
\* every list without repetition of elements of S
RECURSIVE Arrangements(_)
Arrangements(S) ==
    {<<>>} \cup UNION {{<<x>> \o l : l \in Arrangements(S \ {x})} : x \in S}

NoTwoCycle(list) ==
    \A i, j \in DOMAIN list :
        list[i][1] # list[i][2] =>
            ~(list[j][1] = list[i][2] /\ list[j][2] = list[i][1])

UniqueFrom(list) ==
    \A i, j \in DOMAIN list : i # j => list[i][1] # list[j][1]

InitWith(configs) ==
    /\ config \in configs
    /\ file = config
    /\ tasks = [t \in Tasks |-> IdleTask]
    /\ mappings = [k \in Chats \X Tasks |-> <<>>]
    /\ processed_messages = 0
    /\ boot = Started
    /\ copier = IdleCopier
    /\ web = NewWeb
    /\ validator = NewValidator

Message(sender, out, chat, kind, text, cmd) ==
    [sender |-> sender, out |-> out, chat |-> chat, kind |-> kind,
     text |-> text, cmd |-> cmd]

Command(sender, out, chat, op, a, b) ==
    Message(sender, out, chat, "text", CmdText, [op |-> op, a |-> a, b |-> b])

\* who can send what: the bot's own messages are outgoing, all others incoming
Senders == {<<Me, TRUE>>, <<SudoUser, FALSE>>, <<Stranger, FALSE>>}

(***************************************************************************)
(* Spec: the gate.  Content from every kind of sender and every command    *)
(* from a stranger, in a linked chat, with the bot switched on or off.     *)
(***************************************************************************)
GateConfigs ==
    {[DefaultConfig EXCEPT !.bot_enabled = e, !.entities = <<<<1, 2>>>>] :
        e \in BOOLEAN}

EveryCommand ==
    {[op |-> "link", a |-> "2", b |-> "3"], [op |-> "unlink", a |-> "1", b |-> ""],
     [op |-> "add_filter", a |-> <<"a">>, b |-> <<"b">>],
     [op |-> "remove_filter", a |-> <<"a">>, b |-> ""],
     [op |-> "on", a |-> "", b |-> ""], [op |-> "off", a |-> "", b |-> ""],
     [op |-> "filters_off", a |-> "", b |-> ""],
     [op |-> "sign_on", a |-> "", b |-> ""],
     [op |-> "sign_text", a |-> <<"b">>, b |-> ""]}

GateMessages ==
    {Message(p[1], p[2], 1, k, <<"A">>, NoCmd) : p \in Senders, k \in {"text", "poll"}}
    \cup {Command(SudoUser, FALSE, 1, op, "", "") : op \in {"on", "off"}}
    \cup {Command(SudoUser, FALSE, 1, "link", "2", "3"),
          Command(Me, TRUE, 1, "unlink", "1", "")}

Init == InitWith(GateConfigs)

Next ==
    \E t \in Tasks :
        \/ \E m \in GateMessages, io \in WriteIO : Deliver(t, m, io)
        \/ CheckStatusDone(t, Fine)
        \/ \E io \in WriteIO : ForbidDone(t, io)
        \/ \E io \in ResolveIO : LinkResolved(t, io)
        \/ \E io \in ResolveIO : UnlinkResolved(t, io)
        \/ \E io \in SendIO : SendDone(t, io)
        \/ \E io \in WriteIO : SleepDone(t, io)
        \/ \E io \in PollIO : PollDone(t, io)

Spec == Init /\ [][Next]_vars

\* C1: a message that arrives while bot_enabled is false is dropped before
\* the forwarder: no send or poll forward is made for it and no mapping
\* entry is written under its key, whoever sent it.
C1_DroppedWhileDisabled ==
    \A t \in Tasks :
        (tasks[t].pc # "idle" /\ ~tasks[t].msg.out /\ ~tasks[t].en)
            => /\ tasks[t].attempts = <<>>
               /\ mappings[<<tasks[t].msg.chat, t>>] = <<>>

\* C2: an incoming message whose sender is neither the bot's own account
\* nor in the sudo set is never forwarded, whether the bot is enabled or not.
C2_StrangerNeverForwarded ==
    \A t \in Tasks :
        (tasks[t].pc # "idle" /\ ~tasks[t].msg.out /\ ~Privileged(tasks[t].msg))
            => tasks[t].attempts = <<>>

\* C27: an admin command of a privileged sender is handled by its command
\* handler only: no send of its text to a destination of the chat it was
\* typed in succeeds, even when that chat is the source of a rule.
C27_CommandNotForwarded ==
    \A t \in Tasks :
        (/\ tasks[t].pc # "idle"
         /\ Privileged(tasks[t].msg)
         /\ tasks[t].msg.cmd.op # "none")
            => \A k \in DOMAIN tasks[t].attempts : ~tasks[t].attempts[k].ok

(***************************************************************************)
(* SpecCommands: every command from a stranger, in a linked chat, while a  *)
(* sudo user switches the bot on and off.                                  *)
(***************************************************************************)
CommandMessages ==
    {Command(Stranger, FALSE, 1, c.op, c.a, c.b) : c \in EveryCommand}
    \cup {Command(SudoUser, FALSE, 1, op, "", "") : op \in {"on", "off"}}

NextCommands ==
    \E t \in Tasks :
        \/ \E m \in CommandMessages, io \in WriteIO : Deliver(t, m, io)
        \/ CheckStatusDone(t, Fine)
        \/ \E io \in WriteIO : ForbidDone(t, io)
        \/ \E io \in SendIO : SendDone(t, io)
        \/ \E io \in WriteIO : SleepDone(t, io)

SpecCommands == Init /\ [][NextCommands]_vars

\* the task that takes the step
Acts(t) == tasks'[t] # tasks[t]

RuleUniverse == {<<1, 2>>, <<2, 1>>, <<1, 3>>, <<2, 3>>}
RuleLists == {l \in Arrangements(RuleUniverse) : NoTwoCycle(l)}

LinkConfigs == {[DefaultConfig EXCEPT !.entities = l] : l \in RuleLists}

LinkMessages ==
    {Command(Me, TRUE, 9, "link", a, b) : a, b \in {"1", "2"}}
    \cup {Command(Me, TRUE, 9, "unlink", a, "") : a \in {"1", "2", "-3"}}

InitLink == InitWith(LinkConfigs)

NextLink ==
    \E t \in Tasks :
        \/ \E m \in LinkMessages : Deliver(t, m, Fine)
        \/ \E io \in ResolveIO : LinkResolved(t, io)
        \/ \E io \in ResolveIO : UnlinkResolved(t, io)

SpecLink == InitLink /\ [][NextLink]_vars

\* task t's link handler resolves its names to the pair p in this step
Links(t, p) ==
    tasks[t].pc = "link_wait" /\ tasks'[t].pc = "done" /\ tasks'[t].res = p

\* task t's unlink handler resolves its name to the id a in this step
Unlinks(t, a) ==
    tasks[t].pc = "unlink_wait" /\ tasks'[t].pc = "done" /\ tasks'[t].res = <<a>>

\* C4: a link command that resolves to (A,B) while (B,A) is in the rule
\* list is answered 'Cycle detected'; the rule list and the config file stay
\* as they are.
C4_CycleRejected ==
    [][\A t \in Tasks, a, b \in Ids :
          (Links(t, <<a, b>>) /\ <<b, a>> \in Range(config.entities))
              => /\ tasks'[t].reply = "cycle"
                 /\ config' = config
                 /\ file' = file]_vars

\* a link 1 to 2 rejected as a cycle with (2,1) in a list of three rules
C4_Witness ==
    \E t \in Tasks :
        /\ tasks[t].pc = "done" /\ tasks[t].reply = "cycle"
        /\ tasks[t].res = <<1, 2>>
        /\ <<2, 1>> \in Range(config.entities)
        /\ Len(config.entities) = 3

NoDuplicates(list) == \A i, j \in DOMAIN list : i # j => list[i] # list[j]

C10_UnlinkNothing ==
    [][\A t \in Tasks, a \in Ids :
          (Unlinks(t, a) /\ \A i \in DOMAIN config.entities :
                               config.entities[i][1] # a)
              => /\ tasks'[t].reply = "no_links"
                 /\ config' = config
                 /\ file' = file]_vars

\* an unlink answered 'No links found' on a list of three rules, while the
\* file is behind the configuration in memory
C10_Witness ==
    \E t \in Tasks :
        /\ tasks[t].pc = "done" /\ tasks[t].reply = "no_links"
        /\ Len(config.entities) = 3
        /\ file # config

\* C21: no triggered command ends silently: once the handling of a command
\* message from a privileged sender has ended, the requesting chat holds a
\* reply to it, an acknowledgement or an error string.
C21_EveryCommandAnswered ==
    \A t \in Tasks :
        /\ tasks[t].pc = "done"
        /\ Privileged(tasks[t].msg)
        /\ tasks[t].msg.cmd.op # "none"
        => tasks[t].reply # ""

(***************************************************************************)
(* SpecFilter: a sudo user's add filter and remove filter commands, typed  *)
(* in a chat that is not linked, on every filter list the bot can have     *)
(* written from the pairs of FilterUniverse.                               *)
(***************************************************************************)
FilterUniverse ==
    {<<<<"a">>, <<"a", "b">>>>, <<<<"b">>, <<"a">>>>, <<<<"a">>, <<"b">>>>,
     <<<<"a", "b">>, <<"b">>>>}
FilterLists ==
    {l \in Arrangements(FilterUniverse) : NoTwoCycle(l) /\ UniqueFrom(l)}

FilterConfigs == {[DefaultConfig EXCEPT !.filters = l] : l \in FilterLists}

FilterMessages ==
    {Command(SudoUser, FALSE, 9, "add_filter", x, y) :
        x \in {<<"a">>, <<"b">>}, y \in Words}
    \cup {Command(SudoUser, FALSE, 9, "remove_filter", x, "") :
            x \in {<<"a">>, <<"b">>}}

InitFilter == InitWith(FilterConfigs)

NextFilter ==
    \E t \in Tasks :
        \/ \E m \in FilterMessages, io \in WriteIO : Deliver(t, m, io)
        \/ CheckStatusDone(t, Fine)
        \/ \E io \in WriteIO : ForbidDone(t, io)

SpecFilter == InitFilter /\ [][NextFilter]_vars

\* task t's add_filter handler runs in this step for the filter (x, y)
AddsFilter(t, x, y) ==
    /\ tasks[t].pc \notin {"done", "stopped"} /\ tasks'[t].pc = "done"
    /\ tasks'[t].msg.cmd = [op |-> "add_filter", a |-> x, b |-> y]

\* C6 as claimed: add filter (X,Y) while the filter (Y,X) is in the list is
\* answered 'Cycle detected'; the filter list and the config file stay as
\* they are.
C6_FilterCycleAnswered ==
    [][\A t \in Tasks, x, y \in Words :
          (AddsFilter(t, x, y) /\ <<y, x>> \in Range(config.filters))
              => /\ tasks'[t].reply = "cycle"
                 /\ config' = config
                 /\ file' = file]_vars

\* C6 amended: add filter (X,Y) while the filter (Y,X) is in the list is
\* rejected; the filter list and the config file stay as they are.  The
\* answer is 'already filtered' when a filter with the 'from' word X stands
\* in the list before (Y,X), and 'Cycle detected' otherwise.
C6_FilterCycleRejected ==
    [][\A t \in Tasks, x, y \in Words :
          (AddsFilter(t, x, y) /\ <<y, x>> \in Range(config.filters))
              => LET f == config.filters
                     shadowed == \E i \in DOMAIN f :
                                    /\ f[i][1] = x
                                    /\ \A j \in 1..i : f[j] # <<y, x>>
                 IN  /\ tasks'[t].reply =
                           (IF shadowed THEN "already_filtered" ELSE "cycle")
                     /\ config' = config
                     /\ file' = file]_vars

\* one add filter answered 'Cycle detected' and one, with the reverse filter
\* in the list too, answered 'already filtered'
C6_Witness ==
    \E t, u \in Tasks, x, y \in Words :
        /\ tasks[t].pc = "done" /\ tasks[t].reply = "cycle"
        /\ tasks[u].pc = "done" /\ tasks[u].reply = "already_filtered"
        /\ tasks[u].msg.cmd.a = x /\ tasks[u].msg.cmd.b = y
        /\ <<y, x>> \in Range(config.filters)

\* C7: no two filters of the list have the same 'from' word, and an add
\* filter whose 'from' word is in the list already is rejected: the filter
\* list and the config file stay as they are.
C7_FromUnique ==
    /\ UniqueFrom(config.filters)
    /\ [][/\ UniqueFrom(config'.filters)
          /\ \A t \in Tasks, x, y \in Words :
               (AddsFilter(t, x, y)
                   /\ \E i \in DOMAIN config.filters : config.filters[i][1] = x)
                 => /\ tasks'[t].reply \in {"cycle", "already_filtered"}
                    /\ config' = config
                    /\ file' = file]_vars

\* a filter added after another was removed, and an add filter rejected for
\* its 'from' word
C7_Witness ==
    \E t, u \in Tasks :
        /\ tasks[t].pc = "done" /\ tasks[t].reply = "filter_added"
        /\ tasks[u].pc = "done" /\ tasks[u].reply = "already_filtered"
        /\ tasks[u].msg.cmd.a = tasks[t].msg.cmd.a
        /\ Len(config.filters) = 3

(***************************************************************************)
(* SpecAdmin: link and unlink commands of the owner and add filter and     *)
(* remove filter commands of a sudo user, interleaved.                     *)
(***************************************************************************)
AdminConfigs ==
    {[DefaultConfig EXCEPT !.entities = l, !.filters = f] :
        l \in {<<>>, <<<<1, 2>>>>, <<<<2, 1>>, <<1, 3>>>>},
        f \in {<<>>, <<<<<<"a">>, <<"b">>>>>>}}

AdminMessages ==
    {Command(Me, TRUE, 9, "link", a, b) : a, b \in {"1", "2"}}
    \cup {Command(Me, TRUE, 9, "unlink", a, "") : a \in {"1", "2"}}
    \cup {Command(SudoUser, FALSE, 9, "add_filter", x, y) :
            x, y \in {<<"a">>, <<"b">>}}
    \cup {Command(SudoUser, FALSE, 9, "remove_filter", x, "") :
            x \in {<<"a">>, <<"b">>}}

InitAdmin == InitWith(AdminConfigs)

NextAdmin ==
    \E t \in Tasks :
        \/ \E m \in AdminMessages, io \in WriteIO : Deliver(t, m, io)
        \/ CheckStatusDone(t, Fine)
        \/ \E io \in WriteIO : ForbidDone(t, io)
        \/ \E io \in ResolveIO : LinkResolved(t, io)
        \/ \E io \in ResolveIO : UnlinkResolved(t, io)

SpecAdmin == InitAdmin /\ [][NextAdmin]_vars

\* C5: the rule list never holds (A,B) together with (B,A), and the filter
\* list never holds (X,Y) together with (Y,X), for A # B and X # Y, in
\* memory and in the config file, however link, unlink, add filter and
\* remove filter commands interleave.
C5_NoTwoCycles ==
    /\ NoTwoCycle(config.entities) /\ NoTwoCycle(config.filters)
    /\ NoTwoCycle(file.entities) /\ NoTwoCycle(file.filters)

\* two link commands for reverse pairs in flight together: the one that
\* arrived second was linked, the one that arrived first found the cycle
C5_Witness ==
    /\ MaxMsgs >= 2
    /\ tasks[1].pc = "done" /\ tasks[1].reply = "cycle"
    /\ tasks[2].pc = "done" /\ tasks[2].reply = "linked"
    /\ tasks[2].res = <<tasks[1].res[2], tasks[1].res[1]>>
    /\ tasks[1].res[1] # tasks[1].res[2]
    /\ config.filters # <<>>

(***************************************************************************)
(* SpecFanout: the bot's own messages (text, media, poll) in chat 1, which *)
(* has two matched destinations; filters and signature are on.             *)
(* A send or forward may fail, and so may a write of the mapping file.     *)
(***************************************************************************)
FanoutRuleLists ==
    {<<<<1, 2>>, <<1, 3>>>>,
     <<<<1, 3>>, <<2, 3>>, <<1, 2>>>>,
     <<<<1, 2>>, <<1, 2>>>>}

FanoutConfigs ==
    {[DefaultConfig EXCEPT !.entities = l, !.filters = <<<<<<"a">>, <<"b">>>>>>,
                           !.add_signature = TRUE, !.signature = <<"b">>] :
        l \in FanoutRuleLists}

FanoutMessages ==
    {Message(Me, TRUE, 1, k, <<"A">>, NoCmd) : k \in {"text", "media", "poll"}}

InitFanout == InitWith(FanoutConfigs)

NextFanout ==
    \E t \in Tasks :
        \/ \E m \in FanoutMessages : Deliver(t, m, Fine)
        \/ \E io \in StoreIO : SendDone(t, io)
        \/ SleepDone(t, Fine)
        \/ \E io \in SendIO : PollDone(t, io)

SpecFanout == InitFanout /\ [][NextFanout]_vars

\* the send loop of task t ends in this step
LoopEnds(t) ==
    /\ tasks[t].pc = "sleep_wait"
    /\ tasks[t].idx = Len(tasks[t].targets)
    /\ tasks'[t].pc # "sleep_wait"

Failed(task) == {i \in DOMAIN task.attempts : ~task.attempts[i].ok}
Unstored(task) == {i \in DOMAIN task.attempts : ~task.attempts[i].stored}

\* C11: when the send loop of a text or media message with N matched
\* destinations ends and exactly one of its sends failed while everything
\* else succeeded (every other send, and the recording of each), there are
\* exactly N-1 mapping entries under the key of that message and exactly one
\* logged failure; and over the whole fan-out processed_messages goes up by
\* exactly one: by one in the step that ends the loop, by nothing in any
\* other step of that message.
C11_OneFailure ==
    [][\A t \in Tasks :
          Acts(t) /\ tasks'[t].msg.kind # "poll" =>
              /\ processed_messages' =
                     processed_messages + (IF LoopEnds(t) THEN 1 ELSE 0)
              /\ (/\ LoopEnds(t)
                  /\ Cardinality(Failed(tasks'[t])) = 1
                  /\ Unstored(tasks'[t]) = Failed(tasks'[t]))
                 => /\ Len(tasks'[t].attempts) = Len(tasks'[t].targets)
                    /\ Len(mappings'[<<tasks'[t].msg.chat, t>>])
                           = Len(tasks'[t].targets) - 1
                    /\ tasks'[t].logged = 1]_vars

\* a finished fan-out to two destinations whose first send failed
C11_Witness ==
    \E t \in Tasks :
        /\ tasks[t].pc = "done"
        /\ tasks[t].msg.kind = "media"
        /\ tasks[t].targets = <<3, 2>>
        /\ Failed(tasks[t]) = {1}
        /\ Unstored(tasks[t]) = {1}
        /\ mappings[<<1, t>>] = <<<<2, 1>>>>
        /\ tasks[t].logged = 1
        /\ processed_messages >= 1

\* C12: a failed send or forward is isolated, whatever the kind of message:
\* once a message with matched destinations has been handled, every matched
\* destination has been attempted, in list order, also after a failure.
C12_FailureIsolated ==
    \A t \in Tasks :
        tasks[t].pc = "done" /\ tasks[t].targets # <<>> =>
            /\ Len(tasks[t].attempts) = Len(tasks[t].targets)
            /\ \A i \in DOMAIN tasks[t].attempts :
                   tasks[t].attempts[i].target = tasks[t].targets[i]

\* the number of attempts task t has made to send to chat d
AttemptsTo(t, d) ==
    Cardinality({i \in DOMAIN tasks[t].attempts : tasks[t].attempts[i].target = d})

\* C13: the send loop makes exactly one attempt per destination chat and
\* message, whatever rule list was loaded: never two attempts to one chat,
\* and, once the text or media message has been handled, one attempt to each
\* chat its source is linked to and none to any other chat.
C13_OneAttemptPerDestination ==
    \A t \in Tasks : \A d \in Chats :
        tasks[t].msg.kind # "poll" =>
            /\ AttemptsTo(t, d) <= 1
            /\ tasks[t].pc = "done" =>
                   AttemptsTo(t, d) =
                       (IF \E i \in DOMAIN config.entities :
                               config.entities[i] = <<tasks[t].msg.chat, d>>
                        THEN 1 ELSE 0)

\* C17: a poll goes unmodified to every matched destination in list order,
\* and processed_messages counts it once: every forward made carries the
\* poll as it came, the k-th forward goes to the k-th matched destination,
\* a handled poll has one forward per matched destination, and the counter
\* equals the number of handled messages with matched destinations, whether
\* or not forwards failed.
C17_PollForwardedAndCounted ==
    /\ \A t \in Tasks :
           tasks[t].msg.kind = "poll" =>
               /\ \A i \in DOMAIN tasks[t].attempts :
                      /\ tasks[t].attempts[i].text = tasks[t].msg.text
                      /\ tasks[t].attempts[i].target = tasks[t].targets[i]
               /\ tasks[t].pc = "done" =>
                      Len(tasks[t].attempts) = Len(tasks[t].targets)
    /\ processed_messages =
           Cardinality({t \in Tasks : tasks[t].pc = "done" /\ tasks[t].targets # <<>>})

\* the destinations that task t has reached, in the order of its attempts
RECURSIVE Reached(_, _)
Reached(attempts, i) ==
    IF i > Len(attempts) THEN <<>>
    ELSE IF attempts[i].ok
         THEN <<attempts[i].target>> \o Reached(attempts, i + 1)
         ELSE Reached(attempts, i + 1)

\* store_message_mapping was called for task t and could not write the file
StoreFailed(t) ==
    /\ tasks[t].msg.kind # "poll"
    /\ \E i \in DOMAIN tasks[t].attempts :
           tasks[t].attempts[i].ok /\ ~tasks[t].attempts[i].stored

\* C18: every successful send or forward, of a text, media or poll message,
\* has its mapping entry under the key of the source message before the
\* next destination is attempted: at every moment, unless a write of the
\* mapping file has failed, the entries under the key name, one for one and
\* in order, the destinations reached so far.
C18_EverySendMapped ==
    \A t \in Tasks :
        LET stored == mappings[<<tasks[t].msg.chat, t>>]
        IN  ~StoreFailed(t) =>
                [i \in DOMAIN stored |-> stored[i][1]] = Reached(tasks[t].attempts, 1)

\* the matched destinations of a task whose sent message was recorded, in
\* the order of the matched list
RECURSIVE Recorded(_, _)
Recorded(task, i) ==
    IF i > Len(task.attempts) THEN <<>>
    ELSE IF task.attempts[i].stored
         THEN <<task.targets[i]>> \o Recorded(task, i + 1)
         ELSE Recorded(task, i + 1)

\* C19: the mapping store is append-only per key.  In every step, however
\* the fan-outs interleave, the list under each key stays as it was or gets
\* one entry more at its end, the entries it had staying where and what they
\* were; and the entries under the key of a source message name destinations
\* in the order of its matched list.
C19_AppendOnly ==
    [][/\ \A k \in DOMAIN mappings :
              /\ Len(mappings'[k]) \in {Len(mappings[k]), Len(mappings[k]) + 1}
              /\ SubSeq(mappings'[k], 1, Len(mappings[k])) = mappings[k]
       /\ \A t \in Tasks :
              LET stored == mappings'[<<tasks'[t].msg.chat, t>>]
              IN  [i \in DOMAIN stored |-> stored[i][1]] = Recorded(tasks'[t], 1)]_vars

\* two fan-outs that overtook each other: the second message reached chat 2
\* before the first did, the first reached chat 3 before the second, and
\* both keys list chat 3 before chat 2
C19_Witness ==
    /\ mappings[<<1, 1>>] = <<<<3, 1>>, <<2, 2>>>>
    /\ mappings[<<1, 2>>] = <<<<3, 2>>, <<2, 1>>>>
    /\ tasks[1].targets = <<3, 2>>

(***************************************************************************)
(* SpecTransform: the bot's own text and media messages in a linked chat,  *)
(* under every combination of the switches with a choice of filter lists,  *)
(* and the spec's scenario: chat 100 linked to chat 200.                   *)
(***************************************************************************)
TransformFilterLists ==
    {<<>>,
     <<<<<<"a">>, <<"b">>>>>>,
     <<<<<<"a">>, <<"b">>>>, <<<<"b">>, <<"a", "b">>>>>>,
     <<<<<<"b">>, <<"a", "b">>>>, <<<<"a">>, <<"b">>>>>>,
     <<<<<<"a">>, <<"a", "b">>>>>>,
     <<<<<<"a">>, <<"b">>>>, <<<<"b">>, <<"$">>>>>>,
     <<<<<<"a">>, <<"\\", "n">>>>>>,
     <<<<<<"a">>, <<"\\", "1">>>>>>}

ScenarioConfig ==
    [DefaultConfig EXCEPT !.entities = <<<<100, 200>>>>,
                          !.filters = <<<<<<"h", "e", "l", "l", "o">>, <<"h", "i">>>>>>,
                          !.add_signature = TRUE,
                          !.signature = <<"emdash", "b", "o", "t">>]

ScenarioText == <<"H", "e", "l", "l", "o", " ", "w", "o", "r", "l", "d">>

TransformConfigs ==
    {[DefaultConfig EXCEPT !.entities = <<<<1, 2>>>>, !.filters = l,
                           !.filter_words = fw, !.add_signature = as,
                           !.signature = sg] :
        l \in TransformFilterLists, fw \in BOOLEAN, as \in BOOLEAN,
        sg \in {<<>>} \cup Signatures}
    \cup {ScenarioConfig}

Texts == {<<>>, <<"a">>, <<"A", "b">>, <<"b", "a", "A">>}

TransformMessages ==
    {Message(Me, TRUE, 1, "text", x, NoCmd) : x \in Texts}
    \cup {Message(Me, TRUE, 1, "media", <<>>, NoCmd),
          Message(Me, TRUE, 100, "text", ScenarioText, NoCmd)}

InitTransform == InitWith(TransformConfigs)

NextTransform ==
    \E t \in Tasks :
        \/ \E m \in TransformMessages : Deliver(t, m, Fine)
        \/ SendDone(t, Fine)
        \/ SleepDone(t, Fine)

SpecTransform == InitTransform /\ [][NextTransform]_vars

\* the filters as the claim words them: every occurrence replaced by 'to'
\* itself, one filter after another
RECURSIVE LiteralFilters(_, _, _)
LiteralFilters(filters, i, text) ==
    IF i > Len(filters) THEN text
    ELSE LiteralFilters(filters, i + 1, Sub(text, 1, filters[i][1], filters[i][2]))

\* C14: the text of every message the forwarder sends is the inbound text
\* with, when filter_words is true, each filter applied in list order to the
\* output of the one before, every case-insensitive occurrence of 'from'
\* replaced by 'to'; with filter_words false it is the inbound text; in both
\* cases followed by the signature block.
C14_FiltersInOrder ==
    \A t \in Tasks : \A i \in DOMAIN tasks[t].attempts :
        tasks[t].msg.kind # "poll" =>
            tasks[t].attempts[i].text =
                Signed(config, IF config.filter_words
                               THEN LiteralFilters(config.filters, 1, tasks[t].msg.text)
                               ELSE tasks[t].msg.text)

\* C15: the text of every message sent is the filtered text followed by
\* two newlines and the signature when add_signature is true and both the
\* signature and the filtered text are non-empty, and the filtered text alone
\* in every other case; and in the scenario "Hello world" from chat 100
\* becomes exactly one message, to chat 200, "hi world\n\n" and the signature.
C15_SignatureAppended ==
    \A t \in Tasks :
        /\ \A i \in DOMAIN tasks[t].attempts :
               LET filtered == Filtered(config, tasks[t].msg.text)
                   sent == tasks[t].attempts[i].text
               IN  IF /\ config.add_signature
                   /\ config.signature # <<>>
                   /\ filtered # <<>>
               THEN sent = filtered \o <<"\n", "\n">> \o config.signature
               ELSE sent = filtered
        /\ (/\ config = ScenarioConfig
            /\ tasks[t].msg.chat = 100
            /\ tasks[t].msg.text = ScenarioText
            /\ tasks[t].pc = "done")
           => /\ Len(tasks[t].attempts) = 1
              /\ tasks[t].attempts[1].target = 200
              /\ tasks[t].attempts[1].ok
              /\ tasks[t].attempts[1].text =
                     <<"h", "i", " ", "w", "o", "r", "l", "d", "\n", "\n",
                       "emdash", "b", "o", "t">>

\* the scenario's message has been sent with the signature after it
C15_Witness ==
    \E t \in Tasks :
        /\ config = ScenarioConfig
        /\ tasks[t].msg.text = ScenarioText
        /\ tasks[t].pc = "done"
        /\ Len(tasks[t].attempts) = 1
        /\ SubSeq(tasks[t].attempts[1].text, 9, 14) =
               <<"\n", "\n">> \o config.signature
        /\ Len(mappings[<<100, t>>]) = 1

SameWord(v, w) ==
    Len(v) = Len(w) /\ \A k \in DOMAIN v : Lower(v[k]) = Lower(w[k])

\* no filter's 'to' is another filter's 'from'
NoChain(filters) ==
    \A i, j \in DOMAIN filters :
        i # j => ~SameWord(filters[i][2], filters[j][1])

Occurs(text, word) ==
    word = <<>> \/ \E i \in DOMAIN text : MatchAt(text, i, word)

\* C16 as stated, its 'if' half: the text of a sent message is the
\* Transformer applied once to the inbound text; when the filters are on and
\* no filter's 'to' is another filter's 'from', applying the Transformer
\* again gives the same text.
C16_IdempotentIfNoChain ==
    \A t \in Tasks : \A i \in DOMAIN tasks[t].attempts :
        LET once == tasks[t].attempts[i].text
        IN  config.filter_words /\ NoChain(config.filters)
                => Transform(config, once) = once

\* C16, amended: applying the Transformer to the text of a sent message
\* gives that text again whenever no signature is appended to it
\* (add_signature false, or the signature or the text empty) and, with
\* filter_words true, no filter's 'from' occurs in it.
C16_FixedPoint ==
    \A t \in Tasks : \A i \in DOMAIN tasks[t].attempts :
        LET once == tasks[t].attempts[i].text
        IN  (/\ ~(config.add_signature /\ config.signature # <<>> /\ once # <<>>)
             /\ config.filter_words =>
                    \A k \in DOMAIN config.filters :
                        ~Occurs(once, config.filters[k][1]))
            => Transform(config, once) = once

\* filters a -> b, b -> $ are chained, and the text they made of "a" is
\* left as it is by a second application
C16_Witness ==
    \E t \in Tasks :
        /\ config.filter_words /\ ~config.add_signature
        /\ ~NoChain(config.filters)
        /\ tasks[t].msg.text = <<"a">>
        /\ tasks[t].attempts # <<>>
        /\ tasks[t].attempts[1].text = <<"$">>
        /\ Transform(config, <<"$">>) = <<"$">>

(***************************************************************************)
(* SpecWrite: every command that changes the configuration, sent by the    *)
(* bot's own account; a write of the config file may fail.                 *)
(***************************************************************************)
WriteConfigs ==
    {[DefaultConfig EXCEPT !.entities = <<<<1, 2>>>>,
                           !.filters = <<<<<<"a">>, <<"b">>>>>>,
                           !.bot_enabled = e] : e \in BOOLEAN}

WriteMessages ==
    {Command(Me, TRUE, 9, c.op, c.a, c.b) : c \in EveryCommand}
    \cup {Command(Me, TRUE, 9, op, "", "") : op \in {"filters_on", "sign_off"}}

InitWrite == InitWith(WriteConfigs)

NextWrite ==
    \E t \in Tasks :
        \/ \E m \in WriteMessages, io \in WriteIO : Deliver(t, m, io)
        \/ \E io \in ResolveIO : LinkResolved(t, io)
        \/ \E io \in ResolveIO : UnlinkResolved(t, io)

SpecWrite == InitWrite /\ [][NextWrite]_vars

\* the setting a toggle command is about
Setting ==
    [on |-> "bot_enabled", off |-> "bot_enabled",
     filters_on |-> "filter_words", filters_off |-> "filter_words",
     sign_on |-> "add_signature", sign_off |-> "add_signature",
     sign_text |-> "signature"]

\* C20: configuration is write-through.  After every step of every handler,
\* that is at each of its suspension points and at its end, the config file
\* holds the in-memory config; and a step of a toggle command changes no
\* setting but its own.
C20_WriteThrough ==
    [][/\ file' = config'
       /\ \A t \in Tasks :
              Acts(t) /\ tasks'[t].msg.cmd.op \in DOMAIN Setting =>
                  \A f \in DOMAIN config :
                      f # Setting[tasks'[t].msg.cmd.op] => config'[f] = config[f]]_vars

\* C30: a link or unlink command that ends with the error reply, whether a
\* name did not resolve or the write of the config file raised, leaves the
\* rule list in memory as it was: the step in which the handler gives the
\* error reply does not change config.entities.
C30_ErrorLeavesRules ==
    [][\A t \in Tasks :
          (/\ Acts(t)
           /\ tasks'[t].msg.cmd.op \in {"link", "unlink"}
           /\ tasks'[t].reply = "error")
              => /\ tasks'[t].pc = "done"
                 /\ config'.entities = config.entities]_vars

(***************************************************************************)
(* SpecStart: main() from the constructed object to the end of the process, *)
(* with and without --test-session, for every session string (none, not    *)
(* authorized, valid), with and without api_id/api_hash in the config, and  *)
(* every outcome of the awaited client calls.                               *)
(***************************************************************************)
StartRuleLists == {<<>>, <<<<1, 2>>>>, <<<<1, 2>>, <<2, 3>>>>}

StartConfigs == {[DefaultConfig EXCEPT !.entities = l] : l \in StartRuleLists}

InitStart ==
    /\ config \in StartConfigs
    /\ file = config
    /\ tasks = [t \in Tasks |-> IdleTask]
    /\ mappings = [k \in Chats \X Tasks |-> <<>>]
    /\ processed_messages = 0
    /\ boot \in {Constructed(test, session, api) :
                    test \in BOOLEAN, session \in Sessions, api \in BOOLEAN}
    /\ copier = IdleCopier
    /\ web = NewWeb
    /\ validator = NewValidator

NextStart ==
    \/ Main
    \/ \E ok \in BOOLEAN : ClientStart(ok)
    \/ \E ok \in BOOLEAN : Authorized(ok)
    \/ \E ok \in BOOLEAN : GetMe(ok)
    \/ \E ok \in BOOLEAN : GetDialogs(ok)
    \/ \E e \in Ids, ok \in BOOLEAN : ResolveEntity(e, ok)
    \/ \E ok \in BOOLEAN : Disconnected(ok)
    \/ \E ok \in BOOLEAN : ClientDisconnect(ok)
    \/ \E ok \in BOOLEAN : TestStart(ok)
    \/ \E ok \in BOOLEAN : TestAuthorized(ok)
    \/ \E ok \in BOOLEAN : TestGetMe(ok)
    \/ \E ok \in BOOLEAN : TestDisconnect(ok)

SpecStart == InitStart /\ [][NextStart]_vars

\* no session string, a session that is not authorized, or no api_id/api_hash
FatalStartup == ~boot.test /\ (boot.session # "valid" \/ ~boot.api)

Ended == boot.pc \in {"exited", "raised"}

\* C22: on a fatal startup error the handlers are never registered and the
\* run loop is never entered, and when the process has ended is_running is
\* false and the status snapshot reports the error.
C22_StartupErrorReported ==
    FatalStartup =>
        /\ ~boot.handlers
        /\ ~boot.looped
        /\ Ended => /\ ~boot.is_running
                    /\ boot.status # <<>>
                    /\ boot.status[Len(boot.status)].error

\* C24: in --test-session mode the process ends by printing a result that is
\* either {success: true, userInfo} or {success: false, error}, whatever the
\* client calls did, exceptions included, and it never registers the handlers
\* nor enters the run loop.
C24_TestSessionResult ==
    boot.test =>
        /\ ~boot.handlers
        /\ ~boot.looped
        /\ Ended =>
            /\ boot.pc = "exited"
            /\ boot.result.keys = IF boot.result.success
                                  THEN {"success", "userInfo"}
                                  ELSE {"success", "error"}

\* a valid session whose test ended in an exception of a client call
C24_Witness ==
    /\ boot.test
    /\ boot.pc = "exited"
    /\ boot.session = "valid"
    /\ boot.api
    /\ ~boot.result.success
    /\ boot.result.keys = {"success", "error"}

\* the ids handed to get_entity so far
Attempted == {boot.attempted[i] : i \in DOMAIN boot.attempted}

\* C31: in pre-resolution no id is attempted twice and only ids of the rule
\* list are attempted; once pre-resolution is over every distinct id of the
\* rule list was attempted exactly once, whatever failed, the handlers are
\* registered and start_client returned success (run wrote the running
\* snapshot and entered its loop, no error snapshot before it).
C31_ResolutionFailureIsolated ==
    (~boot.test /\ boot.pc \notin {"main", "start", "authorized", "get_me",
                                   "get_dialogs"}
               /\ (boot.attempted # <<>> \/ boot.looped)) =>
        /\ \A i, j \in DOMAIN boot.attempted :
              boot.attempted[i] = boot.attempted[j] => i = j
        /\ Attempted \cup boot.todo = UniqueEntities(config)
        /\ Attempted \cap boot.todo = {}
        /\ boot.failed_entities \subseteq Attempted
        /\ boot.pc # "resolve" =>
              /\ boot.todo = {}
              /\ boot.handlers
              /\ boot.looped
              /\ Len(boot.status) >= 2
              /\ boot.status[2] = [running |-> TRUE, error |-> FALSE,
                                   message |-> Running.message]

\* every one of the three ids of two chained rules failed to resolve, and the
\* bot is in its run loop with the handlers registered
C31_Witness ==
    /\ boot.pc = "loop"
    /\ boot.handlers
    /\ Len(boot.attempted) = 3
    /\ boot.failed_entities = {1, 2, 3}
    /\ Len(config.entities) = 2

(***************************************************************************)
(* SpecCopier: forward jobs over two forward pairs, one run after another,  *)
(* from every stored offset and every choice of service messages, with      *)
(* every outcome of each send and of each write of config.ini.              *)
(***************************************************************************)
InitCopier ==
    /\ config = DefaultConfig
    /\ file = config
    /\ tasks = [t \in Tasks |-> IdleTask]
    /\ mappings = [k \in Chats \X Tasks |-> <<>>]
    /\ processed_messages = 0
    /\ boot = Started
    /\ copier \in {[IdleCopier EXCEPT !.pc = "start", !.offset = o, !.ini = o,
                                      !.service = s] :
                      o \in [Range(Forwards) -> Offsets],
                      s \in SUBSET {2}}
    /\ web = NewWeb
    /\ validator = NewValidator

NextCopier ==
    \/ ForwardJob
    \/ \E outcome \in {"sent", "flood", "error"}, wr \in BOOLEAN :
           SendMessage(outcome, wr)
    \/ CopierSleep
    \/ FloodWait
    \/ \E ok \in BOOLEAN : Notify(ok)
    \/ Restart

SpecCopier == InitCopier /\ [][NextCopier]_vars

\* C23: a message whose send was rate-limited is sent again after the wait:
\* when a job has ended without an error, every message that was refused
\* with a rate-limit error has reached its destination.
C23_RateLimitedIsResent ==
    copier.pc = "done" /\ ~copier.error_occured =>
        \A m \in copier.flooded : \E i \in DOMAIN copier.sent[m[1]] :
            copier.sent[m[1]][i] = m[2]

\* the ids that reached the destination of forward pair f, over all runs
SentTo(f) == {copier.sent[f][i] : i \in DOMAIN copier.sent[f]}

\* C37: for every forward pair the offset in config.ini never decreases and
\* after a successful send is the id of the message sent; messages reach the
\* destination in ascending order of id, so over all runs, runs stopped by an
\* error included, none is sent twice; and when a run has ended without an
\* error, every message that is no service message and whose id is above the
\* offset the run began with has been sent.
C37_OffsetExactlyOnce ==
    /\ [](\A f \in Range(Forwards) :
             /\ \A i, j \in DOMAIN copier.sent[f] :
                    i < j => copier.sent[f][i] < copier.sent[f][j]
             /\ (copier.pc = "done" /\ ~copier.error_occured) =>
                    \A m \in Range(History) :
                        (m > copier.began[f] /\ m \notin copier.service)
                            => m \in SentTo(f))
    /\ [][\A f \in Range(Forwards) :
             /\ copier'.ini[f] >= copier.ini[f]
             /\ copier'.sent[f] # copier.sent[f] =>
                    copier'.ini[f] = copier'.sent[f][Len(copier'.sent[f])]]_vars

(***************************************************************************)
(* SpecUnlinked: content from every kind of sender in a chat that is the    *)
(* source of a rule, in one that is only a destination and in one that no   *)
(* rule names, on a bot that has counted none or nine messages.             *)
(***************************************************************************)
UnlinkedConfigs == {[DefaultConfig EXCEPT !.entities = <<<<1, 2>>>>]}

UnlinkedMessages ==
    {Message(p[1], p[2], c, k, <<"A">>, NoCmd) :
        p \in Senders, c \in {1, 2, 9}, k \in {"text", "media", "poll"}}

InitUnlinked ==
    /\ config \in UnlinkedConfigs
    /\ file = config
    /\ tasks = [t \in Tasks |-> IdleTask]
    /\ mappings = [k \in Chats \X Tasks |-> <<>>]
    /\ processed_messages \in {0, 9}
    /\ boot = Started
    /\ copier = IdleCopier
    /\ web = NewWeb
    /\ validator = NewValidator

NextUnlinked ==
    \E t \in Tasks :
        \/ \E m \in UnlinkedMessages : Deliver(t, m, Fine)
        \/ CheckStatusDone(t, Fine)
        \/ ForbidDone(t, Fine)
        \/ \E io \in SendIO : SendDone(t, io)
        \/ SleepDone(t, Fine)
        \/ \E io \in SendIO : PollDone(t, io)

SpecUnlinked == InitUnlinked /\ [][NextUnlinked]_vars

\* no rule has the chat of the task's message as its source
NoRule(t) == TargetEntities(config.entities, 1, tasks[t].msg.chat) = <<>>

\* C25: a step of the dispatch of a message in a chat that is the source of
\* no rule sends nothing, adds no mapping entry, leaves processed_messages
\* as it is and does not rewrite the status file.
C25_NoRuleNoOp ==
    [][\A t \in Tasks :
          Acts(t) /\ NoRule(t)' =>
              /\ tasks'[t].attempts = <<>>
              /\ mappings' = mappings
              /\ processed_messages' = processed_messages
              /\ boot' = boot]_vars

\* a message in a chat without a rule has been dispatched to the end after a
\* message in the linked chat was forwarded, counted as the tenth and
\* reported in the status file
C25_Witness ==
    /\ tasks[1].pc = "done" /\ ~NoRule(1)
    /\ tasks[2].pc = "done" /\ NoRule(2)
    /\ mappings[<<1, 1>>] # <<>>
    /\ processed_messages = 10
    /\ boot # Started

(***************************************************************************)
(* SpecSequence: the bot's own text and media messages in chat 1, fanned    *)
(* out to two destinations in either order; any send may fail.             *)
(***************************************************************************)
SequenceConfigs ==
    {[DefaultConfig EXCEPT !.entities = l] :
        l \in {<<<<1, 2>>, <<1, 3>>>>, <<<<1, 3>>, <<2, 3>>, <<1, 2>>>>}}

SequenceMessages ==
    {Message(Me, TRUE, 1, k, <<"A">>, NoCmd) : k \in {"text", "media"}}

InitSequence == InitWith(SequenceConfigs)

NextSequence ==
    \E t \in Tasks :
        \/ \E m \in SequenceMessages : Deliver(t, m, Fine)
        \/ \E io \in SendIO : SendDone(t, io)
        \/ SleepDone(t, Fine)

SpecSequence == InitSequence /\ [][NextSequence]_vars

\* the send to the destination at hand is under way, or done and followed
\* by the delay
Sending(t) == tasks[t].pc \in {"send_wait", "sleep_wait"}

\* the dispatch of another update can take its next step now
CanStep(u) ==
    /\ tasks[u].pc = "idle" /\ (\A v \in 1..(u - 1) : tasks[v].pc # "idle")
           => ENABLED (\E m \in SequenceMessages : Deliver(u, m, Fine))
    /\ tasks[u].pc = "send_wait" => ENABLED SendDone(u, Fine)
    /\ tasks[u].pc = "sleep_wait" => ENABLED SleepDone(u, Fine)

\* C26: within one fan-out the destinations are attempted one at a time in
\* the order of the matched list: the k-th attempt goes to the k-th matched
\* destination; while the send to destination i is awaited exactly i-1
\* attempts have completed, and during the delay after it exactly i; the
\* loop moves to the next destination only in the step that ends the delay,
\* and an attempt completes only from the awaited send into the delay; and
\* while one fan-out sleeps the dispatch of every other update can go on.
C26_OneAtATime ==
    /\ [](\A t \in Tasks :
            /\ \A k \in DOMAIN tasks[t].attempts :
                   /\ k <= Len(tasks[t].targets)
                   /\ tasks[t].attempts[k].target = tasks[t].targets[k]
            /\ tasks[t].pc = "send_wait" =>
                   Len(tasks[t].attempts) = tasks[t].idx - 1
            /\ tasks[t].pc = "sleep_wait" =>
                   /\ Len(tasks[t].attempts) = tasks[t].idx
                   /\ \A u \in Tasks \ {t} : CanStep(u))
    /\ [][\A t \in Tasks :
            Sending(t) =>
                /\ tasks'[t].idx # tasks[t].idx =>
                       /\ tasks[t].pc = "sleep_wait"
                       /\ tasks'[t].pc = "send_wait"
                       /\ tasks'[t].idx = tasks[t].idx + 1
                /\ tasks'[t].attempts # tasks[t].attempts =>
                       /\ tasks[t].pc = "send_wait"
                       /\ tasks'[t].pc = "sleep_wait"
                       /\ Len(tasks'[t].attempts) = Len(tasks[t].attempts) + 1]_vars

\* the first fan-out sleeps after its first attempt, which failed, while a
\* second message has been fanned out to both of its destinations
C26_Witness ==
    /\ tasks[1].pc = "sleep_wait"
    /\ tasks[1].idx = 1
    /\ Len(tasks[1].targets) = 2
    /\ ~tasks[1].attempts[1].ok
    /\ tasks[2].pc = "done"
    /\ Len(tasks[2].attempts) = 2

(***************************************************************************)
(* SpecDispatch: texts typed by the bot's own account in a chat that is not *)
(* linked: every command, near misses of the commands, texts that begin     *)
(* like one command and go on like another, and plain words.                *)
(***************************************************************************)
\* a message with the text w, and what the first handler it triggers reads
Typed(sender, out, chat, w) ==
    Message(sender, out, chat, "text", w,
            IF Triggered(w) = <<>> THEN NoCmd ELSE CmdOf(Triggered(w)[1], w))


OneWord ==
    {"sync", "link", "Links", "linksx", "unlink", "filters", "settingsx",
     "On", "ON", "o:n", "off", "o:ff", "sign", "help", "hello"}

DispatchTexts ==
    {<<w>> : w \in OneWord}
    \cup {<<v, w>> : v \in {"filters", "sign", "links", "settings"},
                     w \in {"on", "o:n", "text"}}
    \cup {<<"unlink", "1">>, <<"unlink", "-3">>, <<"on", "off">>,
          <<"link", "2", "to", "3">>, <<"links", "2", "to", "3">>,
          <<"link", "2", "3">>,
          <<"add", "filter", "\"b\"", "to", "\"a\"">>,
          <<"add", "filter", "\"a\"">>, <<"remove", "filter", "\"a\"">>,
          <<"sign", "text", "b">>, <<"sign", "text", "on">>,
          <<"filters", "on", "off">>}

DispatchMessages == {Typed(Me, TRUE, 9, w) : w \in DispatchTexts}

InitDispatch == InitWith(WriteConfigs)

NextDispatch ==
    \E t \in Tasks :
        \/ \E m \in DispatchMessages : Deliver(t, m, Fine)
        \/ \E io \in ResolveIO : LinkResolved(t, io)
        \/ \E io \in ResolveIO : UnlinkResolved(t, io)

SpecDispatch == InitDispatch /\ [][NextDispatch]_vars

\* C28: for every text at most one command handler takes effect.  No text
\* triggers two handlers; the dispatch of a message changes the configuration
\* in at most one step, its last, and makes at most one reply, which link
\* and unlink edit once; and a text that matches no pattern changes neither
\* the configuration nor the config file and gets no reply.
C28_AtMostOneHandler ==
    /\ [](\A t \in Tasks :
            /\ tasks[t].pc # "idle" => Len(Triggered(tasks[t].msg.text)) <= 1
            /\ Triggered(tasks[t].msg.text) = <<>> => tasks[t].reply = "")
    /\ [][\A t \in Tasks :
            Acts(t) =>
                /\ config' # config \/ file' # file =>
                       /\ tasks'[t].pc = "done"
                       /\ Triggered(tasks'[t].msg.text) # <<>>
                /\ tasks'[t].reply # tasks[t].reply =>
                       tasks[t].reply \in {"", "processing"}]_vars

\* 'filters on' has switched the filters on and been answered, and 'hello'
\* has been dispatched without a trace
C28_Witness ==
    /\ tasks[1].msg.text = <<"filters", "on">>
    /\ tasks[1].pc = "done"
    /\ tasks[1].reply = "filters_enabled"
    /\ tasks[2].msg.text = <<"hello">>
    /\ tasks[2].pc = "done"
    /\ tasks[2].reply = ""
    /\ config = file

(***************************************************************************)
(* SpecRace: link, unlink, add filter and remove filter commands of the     *)
(* bot's own account on the default configuration, interleaved at the       *)
(* network waits of link and unlink; names may fail to resolve and writes   *)
(* of the config file may fail.                                             *)
(***************************************************************************)
RaceConfig == DefaultConfig

RaceMessages ==
    {Command(Me, TRUE, 9, "link", "1", "2"), Command(Me, TRUE, 9, "link", "1", "3"),
     Command(Me, TRUE, 9, "link", "2", "1"), Command(Me, TRUE, 9, "unlink", "1", ""),
     Command(Me, TRUE, 9, "add_filter", <<"a">>, <<"b">>),
     Command(Me, TRUE, 9, "add_filter", <<"b">>, <<"a">>),
     Command(Me, TRUE, 9, "remove_filter", <<"a">>, "")}

InitRace == InitWith({RaceConfig})

NextRace ==
    \E t \in Tasks :
        \/ \E m \in RaceMessages, io \in WriteIO : Deliver(t, m, io)
        \/ \E io \in ResolveIO : LinkResolved(t, io)
        \/ \E io \in ResolveIO : UnlinkResolved(t, io)

SpecRace == InitRace /\ [][NextRace]_vars

\* the replies that acknowledge a mutation
Acknowledgements == {"linked", "unlinked", "filter_added", "filter_erased"}

Acked(t) == tasks[t].pc = "done" /\ tasks[t].reply \in Acknowledgements

\* the configuration after the command of task t has run alone, from start
\* to end, on the configuration cfg; a command whose names did not resolve
\* has not run
Alone(cfg, t) ==
    LET s0 == [Cur EXCEPT !.config = cfg]
        op == tasks[t].msg.cmd.op
    IN  CASE op = "link" ->
               IF tasks[t].res = <<>> THEN cfg
               ELSE link_entities(s0, t, Fine).config
          [] op = "unlink" ->
               IF tasks[t].res = <<>> THEN cfg
               ELSE unlink_entities(s0, t, Fine).config
          [] OTHER -> commands(s0, t, Fine).config

\* the commands of the tasks of the list l run one after another
RECURSIVE OneByOne(_, _)
OneByOne(cfg, l) ==
    IF l = <<>> THEN cfg ELSE OneByOne(Alone(cfg, l[1]), Tail(l))

\* the mutation task t acknowledged is in the configuration f
Reflects(f, t) ==
    LET cmd == tasks[t].msg.cmd
    IN  CASE cmd.op = "link" -> tasks[t].res \in Range(f.entities)
          [] cmd.op = "unlink" ->
               \A i \in DOMAIN f.entities : <<f.entities[i][1]>> # tasks[t].res
          [] cmd.op = "add_filter" -> <<cmd.a, cmd.b>> \in Range(f.filters)
          [] cmd.op = "remove_filter" ->
               \A i \in DOMAIN f.filters : f.filters[i][1] # cmd.a
          [] OTHER -> TRUE

Undoes(u, t) ==
    <<tasks[u].msg.cmd.op, tasks[t].msg.cmd.op>> \in
        {<<"unlink", "link">>, <<"link", "unlink">>,
         <<"remove_filter", "add_filter">>, <<"add_filter", "remove_filter">>}

InitShutdown == InitWith(SequenceConfigs)

NextShutdown ==
    \/ boot.pc = "loop" /\ \E t \in Tasks, m \in SequenceMessages :
                              Deliver(t, m, Fine)
    \/ Alive /\ \E t \in Tasks, io \in SendIO : SendDone(t, io)
    \/ Alive /\ \E t \in Tasks : SleepDone(t, Fine)
    \/ Signal
    \/ \E ok \in BOOLEAN : ClientDisconnect(ok)

SpecShutdown == InitShutdown /\ [][NextShutdown]_vars

\* C32: the signal sets is_running to false and asks the client to
\* disconnect in the same step, every fan-out suspended at that moment ends
\* where it is, nothing is sent or counted after the signal, and is_running
\* is false from then on.
C32_ShutdownDoesNotDrain ==
    /\ [](boot.signalled => ~boot.is_running)
    /\ [][(~boot.signalled /\ boot'.signalled) =>
              /\ ~boot'.is_running
              /\ boot'.client # "open"
              /\ \A t \in Tasks :
                    /\ tasks'[t].attempts = tasks[t].attempts
                    /\ tasks[t].pc \in Suspended => tasks'[t].pc = "cancelled"
                    /\ tasks[t].pc \notin Suspended => tasks'[t] = tasks[t]]_vars
    /\ [][boot.signalled =>
              /\ processed_messages' = processed_messages
              /\ \A t \in Tasks : tasks'[t].attempts = tasks[t].attempts]_vars

\* the process has ended after a signal that found a fan-out in the delay
\* after its first send: the second destination was never attempted and the
\* message was not counted
C32_Witness ==
    /\ boot.signalled
    /\ boot.pc = "exited"
    /\ \E t \in Tasks :
          /\ tasks[t].pc = "cancelled"
          /\ Len(tasks[t].targets) = 2
          /\ tasks[t].idx = 1
          /\ Len(tasks[t].attempts) = 1
    /\ processed_messages = 0

(***************************************************************************)
(* SpecSnapshot: the bot's own message in chat 1, fanned out to one or two  *)
(* destinations, and the bot's own commands in chat 9 that change the       *)
(* rules, the filters and the settings, handled at any moment of the        *)
(* fan-out.                                                                 *)
(***************************************************************************)
SnapshotConfigs ==
    {[DefaultConfig EXCEPT !.entities = l,
                           !.filters = <<<<<<"a">>, <<"b">>>>>>,
                           !.signature = <<"b">>] :
        l \in {<<<<1, 2>>>>, <<<<1, 2>>, <<1, 3>>>>}}

SnapshotMessages ==
    {Message(Me, TRUE, 1, "text", <<"A">>, NoCmd),
     Command(Me, TRUE, 9, "link", "1", "3"),
     Command(Me, TRUE, 9, "unlink", "1", ""),
     Command(Me, TRUE, 9, "remove_filter", <<"a">>, ""),
     Command(Me, TRUE, 9, "add_filter", <<"b">>, <<"a", "b">>),
     Command(Me, TRUE, 9, "filters_off", "", ""),
     Command(Me, TRUE, 9, "sign_on", "", ""),
     Command(Me, TRUE, 9, "off", "", "")}

InitSnapshot == InitWith(SnapshotConfigs)

NextSnapshot ==
    \E t \in Tasks :
        \/ \E m \in SnapshotMessages : Deliver(t, m, Fine)
        \/ LinkResolved(t, Fine)
        \/ UnlinkResolved(t, Fine)
        \/ \E io \in SendIO : SendDone(t, io)
        \/ SleepDone(t, Fine)

SpecSnapshot == InitSnapshot /\ [][NextSnapshot]_vars

FanningOut(t) == tasks[t].pc \in {"send_wait", "sleep_wait"}

\* C33: the destination list and the text of a fan-out are those of the
\* configuration at the moment the message is handled, no step of any
\* handler changes them while the fan-out is in progress, and every send of
\* the fan-out goes to the next destination of that list with that text.
C33_FanoutSnapshot ==
    /\ [][\A t \in Tasks :
             /\ (tasks[t].pc = "idle" /\ tasks'[t].pc = "send_wait") =>
                   /\ tasks'[t].targets =
                          TargetEntities(config.entities, 1, tasks'[t].msg.chat)
                   /\ tasks'[t].message_text =
                          Transform(config, tasks'[t].msg.text)
             /\ FanningOut(t) =>
                   /\ tasks'[t].targets = tasks[t].targets
                   /\ tasks'[t].message_text = tasks[t].message_text]_vars
    /\ [](\A t \in Tasks : \A i \in DOMAIN tasks[t].attempts :
             /\ i <= Len(tasks[t].targets)
             /\ tasks[t].attempts[i].target = tasks[t].targets[i]
             /\ tasks[t].attempts[i].text = tasks[t].message_text)

\* a fan-out to two destinations has ended with the same text to both,
\* although a command handled in between changed what the text or the
\* destinations of a new message would be
C33_Witness ==
    \E t \in Tasks :
        /\ tasks[t].pc = "done"
        /\ Len(tasks[t].attempts) = 2
        /\ tasks[t].attempts[1].text = tasks[t].attempts[2].text
        /\ \/ Transform(config, tasks[t].msg.text) # tasks[t].message_text
           \/ TargetEntities(config.entities, 1, 1) # tasks[t].targets

(***************************************************************************)
(* SpecGraph: from the empty rule list, the bot's own link and unlink       *)
(* commands for every pair of names, every name resolving.                  *)
(***************************************************************************)
GraphMessages ==
    {Command(Me, TRUE, 9, "link", a, b) : a, b \in {"1", "2", "3"}}
    \cup {Command(Me, TRUE, 9, "unlink", a, "") : a \in {"1", "2", "3"}}

InitGraph == InitWith({DefaultConfig})

NextGraph ==
    \E t \in Tasks :
        \/ \E m \in GraphMessages : Deliver(t, m, Fine)
        \/ LinkResolved(t, Fine)
        \/ UnlinkResolved(t, Fine)

SpecGraph == InitGraph /\ [][NextGraph]_vars

Edge(list, a, b) == <<a, b>> \in Range(list)

\* some chain of at most three rules leads from a to b; with three ids a
\* cycle has no more than three rules
Routed(list, a, b) ==
    \/ Edge(list, a, b)
    \/ \E c \in Ids : Edge(list, a, c) /\ Edge(list, c, b)
    \/ \E c, d \in Ids : Edge(list, a, c) /\ Edge(list, c, d) /\ Edge(list, d, b)

\* C34: starting from the empty rule list, the rules never route a chat back
\* to itself: no rule (A,A) and no chain of rules from A to A.
C34_NoRoutingCycle ==
    \A a \in Ids : ~Routed(config.entities, a, a)

(***************************************************************************)
(* SpecToggle: 'on' and 'off' from the bot's own account in a chat without  *)
(* a rule, 'on' from the sudo user in a chat with a rule (the forwarder     *)
(* fans the command out first) and from a stranger, the bot enabled or      *)
(* disabled at the start, config writes and sends that may fail.  The event *)
(* loop resumes every handler whose awaited call has ended, so each task's  *)
(* resumption is weakly fair; the arrival of updates is not.                *)
(***************************************************************************)
ToggleConfigs ==
    {[DefaultConfig EXCEPT !.bot_enabled = e,
                           !.entities = <<<<1, 2>>>>,
                           !.filters = <<<<<<"a">>, <<"b">>>>>>,
                           !.signature = <<"b">>] : e \in BOOLEAN}

ToggleMessages ==
    {Command(Me, TRUE, 9, op, "", "") : op \in {"on", "off"}}
    \cup {Command(SudoUser, FALSE, 1, "on", "", ""),
          Command(Stranger, FALSE, 9, "on", "", "")}

InitToggle == InitWith(ToggleConfigs)

Resume(t) ==
    \/ CheckStatusDone(t, Fine)
    \/ \E io \in WriteIO : ForbidDone(t, io)
    \/ \E io \in SendIO : SendDone(t, io)
    \/ SleepDone(t, Fine)

NextToggle ==
    \E t \in Tasks :
        \/ \E m \in ToggleMessages, io \in WriteIO : Deliver(t, m, io)
        \/ Resume(t)

SpecToggle ==
    InitToggle /\ [][NextToggle]_vars /\ \A t \in Tasks : WF_vars(Resume(t))

\* task t holds a command op of the bot's account or of a sudo user
Ordered(t, op) ==
    /\ tasks[t].pc # "idle"
    /\ Privileged(tasks[t].msg)
    /\ tasks[t].msg.cmd.op = op

\* C35: an 'on' command of a privileged sender is always processed by its
\* handler, whether the bot is enabled or not, and the step that ends it
\* sets bot_enabled to true and changes nothing else of the configuration;
\* 'off' sets it to false and changes nothing else, so 'off' followed by
\* 'on' leaves every other setting, the rules and the filters as they were.
C35_NeverStuckDisabled ==
    /\ \A t \in Tasks : Ordered(t, "on") ~> (tasks[t].pc = "done")
    /\ [][\A t \in Tasks :
             /\ (Ordered(t, "on")' /\ Acts(t) /\ tasks'[t].pc = "done") =>
                    config' = [config EXCEPT !.bot_enabled = TRUE]
             /\ (Ordered(t, "off")' /\ Acts(t) /\ tasks'[t].pc = "done") =>
                    config' = [config EXCEPT !.bot_enabled = FALSE]
             /\ (Ordered(t, "on")' /\ Acts(t) /\ tasks'[t].pc # "done") =>
                    config' = config]_vars

\* 'off', then the sudo user's 'on' that arrived while the bot was disabled:
\* the bot is enabled again and everything else is as at the start
C35_Witness ==
    /\ Ordered(1, "off") /\ tasks[1].pc = "done" /\ tasks[1].reply = "bot_off"
    /\ Ordered(2, "on") /\ tasks[2].pc = "done" /\ tasks[2].reply = "bot_on"
    /\ tasks[2].msg.sender = SudoUser
    /\ ~tasks[2].en
    /\ config \in ToggleConfigs
    /\ config.bot_enabled
    /\ file = config

(***************************************************************************)
(* SpecCount: the bot's own text messages and polls in chat 1, which has    *)
(* two matched destinations, and in chat 9, which has none; any send or     *)
(* forward may fail; the handlers of all messages run interleaved.          *)
(***************************************************************************)
CountConfigs ==
    {[DefaultConfig EXCEPT !.entities = l] :
        l \in {<<<<1, 2>>, <<1, 3>>>>, <<<<1, 3>>, <<2, 3>>, <<1, 2>>>>}}

CountMessages ==
    {Message(Me, TRUE, chat, k, <<"A">>, NoCmd) :
        chat \in {1, 9}, k \in {"text", "poll"}}

InitCount == InitWith(CountConfigs)

NextCount ==
    \E t \in Tasks :
        \/ \E m \in CountMessages : Deliver(t, m, Fine)
        \/ \E io \in SendIO : SendDone(t, io)
        \/ SleepDone(t, Fine)
        \/ \E io \in SendIO : PollDone(t, io)

SpecCount == InitCount /\ [][NextCount]_vars

\* the fan-out of task t has run to completion: the message has matched
\* destinations, the handler is past its loop, and the loop went through
\* every destination (a forward of a poll that raises ends the loop early)
Completed(t) ==
    /\ tasks[t].targets # <<>>
    /\ tasks[t].pc \notin {"idle", "send_wait", "sleep_wait", "poll_wait"}
    /\ Len(tasks[t].attempts) = Len(tasks[t].targets)
    /\ tasks[t].msg.kind = "poll" =>
           \A i \in DOMAIN tasks[t].attempts : tasks[t].attempts[i].ok

\* C36: processed_messages never decreases, and at every moment of every
\* interleaving of fan-outs it is the number of messages with a matched
\* destination whose fan-out has run to completion: one per message, not one
\* per destination.
C36_CountsCompletedFanouts ==
    /\ [][processed_messages' >= processed_messages]_vars
    /\ [](processed_messages = Cardinality({t \in Tasks : Completed(t)}))

\* the second message's fan-out to two destinations has ended, with a failed
\* send, and is counted once, while the first message's fan-out is still in
\* its last delay and not counted yet
C36_Witness ==
    /\ MaxMsgs >= 2
    /\ tasks[1].pc = "sleep_wait" /\ Len(tasks[1].attempts) = 2
    /\ tasks[2].pc = "done" /\ Len(tasks[2].attempts) = 2
    /\ tasks[2].msg.kind = "text"
    /\ ~tasks[2].attempts[1].ok
    /\ processed_messages = 1

(***************************************************************************)
(* SpecWeb: any sequence of initialize, start_bot and stop_bot on one       *)
(* WebIntegratedBot, with every outcome of the constructor of the client,   *)
(* of client.start, of what start_bot does after it, and of                 *)
(* client.disconnect.                                                       *)
(***************************************************************************)
InitWeb == InitWith({DefaultConfig})

NextWeb ==
    \/ \E ok \in BOOLEAN : Initialize(ok)
    \/ StartBot
    \/ \E outcome \in {"start_raises", "setup_raises", "started"} :
           ClientStarted(outcome)
    \/ StopBot
    \/ \E ok \in BOOLEAN : ClientDisconnected(ok)

SpecWeb == InitWeb /\ [][NextWeb]_vars

\* a start_bot has returned True and no stop_bot has returned True since
Granted ==
    \E i \in DOMAIN web.calls :
        /\ web.calls[i] = [call |-> "start_bot", value |-> "True"]
        /\ \A j \in (i + 1)..Len(web.calls) :
               web.calls[j] # [call |-> "stop_bot", value |-> "True"]

\* C38: is_running is true only between a start_bot that returned True and
\* the next stop_bot that returned True; a start_bot that returns False
\* leaves is_running false; stop_bot returns True exactly when there is a
\* client and is_running is true, and then is_running is false; a stop_bot
\* that returns False changes nothing.
C38_RunningBetweenStartAndStop ==
    /\ [](web.is_running => Granted)
    /\ [][Len(web'.calls) > Len(web.calls) =>
            LET c == web'.calls[Len(web'.calls)]
            IN  /\ (c.call = "start_bot" /\ c.value = "False"
                        /\ ~web.is_running) => ~web'.is_running
                /\ c.call = "stop_bot" =>
                      /\ c.value = "True" <=> (web.client /\ web.is_running)
                      /\ c.value = "True" => ~web'.is_running
                      /\ c.value = "False" =>
                            /\ web'.is_running = web.is_running
                            /\ web'.client = web.client]_vars

(***************************************************************************)
(* SpecValidator: the validator alone.  A validate_ method is called by     *)
(* itself, or run_pre_start_validation runs them all, with or without a     *)
(* session string, and makes the report.                                    *)
(***************************************************************************)
InitValidator == InitWith({DefaultConfig})

\* what the validations of one run find: at most MaxFindings of them find
\* anything
RunEnvs ==
    UNION {{[i \in DOMAIN Validations |-> IF i \in S THEN f[i] ELSE Clean] :
               f \in {g \in [S -> Envs("Required Packages") \ {Clean}] :
                         \A i \in S : g[i] \in Envs(Validations[i])}} :
           S \in {T \in SUBSET DOMAIN Validations :
                     Cardinality(T) <= MaxFindings}}

NextValidator ==
    \/ \E i \in DOMAIN Validations :
           \E env \in Envs(Validations[i]) : Validate(Validations[i], env)
    \/ \E n \in {Len(Validations) - 1, Len(Validations)} :
           \E envs \in RunEnvs : RunPreStartValidation(n, envs)

SpecValidator == InitValidator /\ [][NextValidator]_vars

\* C39: whatever validations have run, requirements_met is true exactly
\* when critical_errors is empty, and no report of run_pre_start_validation
\* has auto_start_guaranteed true together with an entry in its
\* critical_errors, be it one a validation found or one written because a
\* validation ended by an exception.
C39_RequirementsMetIffNoCriticalErrors ==
    /\ validator.requirements_met <=> validator.critical_errors = <<>>
    /\ validator.report.made =>
           ~(/\ validator.report.auto_start_guaranteed
             /\ validator.report.critical_errors # <<>>)
====
